---- MODULE Spec2Model ----
(***************************************************************************)
(* Model of the reservation webhook client (app/api.py and the services    *)
(* it calls).  One POST /webhook request is followed from the moment       *)
(* handle_webhook is entered with a parsed payload until the response is   *)
(* produced; every call to a collaborator (host management, notification,  *)
(* audit log, network switch) is appended to `calls`.                      *)
(***************************************************************************)
EXTENDS Integers, Sequences, FiniteSets, TLC

(***************************************************************************)
(* Bounds of the model.                                                    *)
(***************************************************************************)
MaxEvents == 2
MaxInstant == 2

(***************************************************************************)
(* Values.                                                                 *)
(***************************************************************************)
None == "<None>"

EVENT_START == "EVENT_START"
EVENT_END == "EVENT_END"
EVENT_DELETED == "EVENT_DELETED"
EVENT_OTHER == "EVENT_RESCHEDULED"

HTTP_200_OK == 200
HTTP_403_FORBIDDEN == 403
HTTP_500_INTERNAL_SERVER_ERROR == 500

PROVISION_IMAGE == "default-provision-image-url"

EventTypes == {EVENT_START, EVENT_END, EVENT_DELETED, EVENT_OTHER}
Instants == 0..MaxInstant

\* models.Event: the fields handle_webhook reads and the event's interval
\* (eventStart, eventEnd).  Nothing makes the event ids or the resource
\* names of a batch distinct.
MkEvent(event_id, resource_name) ==
  [event_id |-> event_id, resource_name |-> resource_name,
   event_start |-> 0, event_end |-> 1]

Event == {MkEvent("e1", "r1"), MkEvent("e2", "r2"), MkEvent("e1", "r2")}

SeqsUpTo(S, n) == UNION {[1..k -> S] : k \in 0..n}

\* Python truthiness of an Optional[str]
Truthy(s) == s # None /\ s # ""

\* str.lower() on the event types of the model
Lower(s) ==
  CASE s = EVENT_START -> "event_start"
    [] s = EVENT_END -> "event_end"
    [] s = EVENT_DELETED -> "event_deleted"
    [] s = EVENT_OTHER -> "event_rescheduled"
    [] OTHER -> s

(***************************************************************************)
(* Signature verification (services/security.py).                          *)
(***************************************************************************)
\* str values str.encode('utf-8') rejects (a lone surrogate, as an
\* environment variable with undecodable bytes reads)
UnencodableStrings == {"k<surrogate>"}

\* str values with a character outside ASCII
NonAsciiStrings == {"sig<e-acute>"}

Secrets == {None, "", "k1", "k<surrogate>"}
Bodies == {"b1"}

\* base64(HMAC-SHA256(secret, body)): one digest per (key, body) pair
B64HmacSha256(key, body) == "sig(" \o key \o "," \o body \o ")"

SignatureHeaders ==
  {None, "", B64HmacSha256("k1", "b1"), B64HmacSha256("k2", "b1"),
   B64HmacSha256("k1", "b2"), "sig<e-acute>"}

\* config.WEBHOOK_SECRET.encode('utf-8'), hmac.new, base64.b64encode: the
\* expected signature, or the exception raised
expected_signature(secret, payload_body) ==
  IF secret \in UnencodableStrings THEN "UnicodeEncodeError"
  ELSE B64HmacSha256(secret, payload_body)

\* hmac.compare_digest on two str: "True", "False", or "TypeError" when one of
\* them is not ASCII
compare_digest(a, b) ==
  IF a \in NonAsciiStrings \/ b \in NonAsciiStrings THEN "TypeError"
  ELSE IF a = b THEN "True" ELSE "False"

\* a gate that lets a request without the header through
verify_signature_missing_header_passes(secret, payload_body, signature_header) ==
  IF ~Truthy(secret) THEN "True"
  ELSE IF ~Truthy(signature_header) THEN "True"
  ELSE IF signature_header = B64HmacSha256(secret, payload_body)
       THEN "True" ELSE "False"

\* a verification without the except clause
verify_signature_error_escapes(secret, payload_body, signature_header) ==
  IF ~Truthy(secret) THEN "True"
  ELSE IF ~Truthy(signature_header) THEN "False"
  ELSE LET expected == expected_signature(secret, payload_body)
       IN IF expected = "UnicodeEncodeError" THEN expected
          ELSE compare_digest(signature_header, expected)

\* security.verify_signature: "True" or "False"; the name of an exception
\* would stand for one that leaves the function
verify_signature(secret, payload_body, signature_header) ==
  IF ~Truthy(secret) THEN "True"
  ELSE IF ~Truthy(signature_header) THEN "False"
  ELSE LET expected == expected_signature(secret, payload_body)
       IN IF expected = "UnicodeEncodeError"
          THEN "False"   \* except Exception: return False
          ELSE LET r == compare_digest(signature_header, expected)
               IN IF r \in {"True", "False"} THEN r
                  ELSE "False"   \* except Exception: return False

(***************************************************************************)
(* Requests: the payload handle_webhook receives, with the raw body and    *)
(* the X-Webhook-Signature header.                                         *)
(***************************************************************************)
\* active_resources: None (has_active = FALSE) or a list
ActiveResourceChoices ==
  {[has_active |-> FALSE, active_resources |-> <<>>],
   [has_active |-> TRUE, active_resources |-> <<MkEvent("e9", "r9")>>]}

\* the names of the datetime fields of a payload
TimestampFields == {"timestamp", "start", "end"}

\* models.WebhookPayload.  has_events, has_data and has_event_count tell
\* which keys the JSON body carries, well_formed that it is JSON, and naive
\* which of its datetime fields came without a UTC offset.
BatchRequests ==
  {[r EXCEPT !.event_count = Len(r.events)] :
     r \in [shape : {"batch"},
            event_type : EventTypes \ {EVENT_DELETED},
            webhook_id : {"", "w1"},
            user_id : {None, "u1"},
            events : SeqsUpTo(Event, MaxEvents),
            event_count : {0},
            active : ActiveResourceChoices,
            timestamp : {0}, start : {0}, end : {0},
            resource_name : {""}, data_id : {""},
            has_events : {TRUE}, has_data : {FALSE},
            has_event_count : {TRUE}, well_formed : {TRUE}, naive : {{}},
            raw : Bodies]}

\* models.EventWebhookPayload
NoticeRequests ==
  [shape : {"notice"},
   event_type : {EVENT_DELETED, EVENT_OTHER, EVENT_START},
   webhook_id : {"", "w1"},
   user_id : {None, "u1"},
   events : {<<>>},
   event_count : {0},
   active : {[has_active |-> FALSE, active_resources |-> <<>>]},
   timestamp : Instants, start : Instants, end : Instants,
   resource_name : {"r1"}, data_id : {"7"},
   has_events : {FALSE}, has_data : {TRUE},
   has_event_count : {FALSE}, well_formed : {TRUE}, naive : {{}},
   raw : Bodies]

Requests == BatchRequests \cup NoticeRequests

NoRequest ==
  [shape |-> "none", event_type |-> "", webhook_id |-> "", user_id |-> None,
   events |-> <<>>,
   active |-> [has_active |-> FALSE, active_resources |-> <<>>],
   event_count |-> 0,
   timestamp |-> 0, start |-> 0, end |-> 0, resource_name |-> "",
   data_id |-> "", has_events |-> FALSE, has_data |-> FALSE,
   has_event_count |-> FALSE, well_formed |-> TRUE, naive |-> {},
   raw |-> "b1"]

(***************************************************************************)
(* Responses and collaborator calls.                                       *)
(***************************************************************************)
Response(status, kind, action, count, user, failures, resource) ==
  [status |-> status, kind |-> kind, action |-> action, count |-> count,
   user |-> user, failures |-> failures, resource |-> resource]

NoResponse == Response(0, "none", "", 0, None, <<>>, "")

\* the message of api._create_batch_success_response:
\* f"Batch {action} initiated for {count} events{user_str}."
batch_success_message(action, count, user_id) ==
  "Batch " \o action \o " initiated for " \o ToString(count) \o " events"
  \o (IF Truthy(user_id) THEN " for user " \o user_id ELSE "") \o "."

\* api._create_batch_success_response
create_batch_success_response(action, count, user_id) ==
  Response(HTTP_200_OK, "batch_success", action, count,
           IF Truthy(user_id) THEN user_id ELSE None, <<>>, "")

\* delivered is what the call returned to its caller, for the calls whose
\* success field is an argument
Call(svc, op, name, event_id, image, event_type, success, status_code, user, names, delivered) ==
  [svc |-> svc, op |-> op, name |-> name, event_id |-> event_id,
   image |-> image, event_type |-> event_type, success |-> success,
   status_code |-> status_code, user |-> user, names |-> names,
   delivered |-> delivered, patch |-> None, raised |-> None]

\* what the orchestrator API does with one patch request: it applies it,
\* answers with an error status, or the client gives up waiting
ApiOutcomes == {"patched", "ApiException", "Timeout"}

\* a _apply_patch that only expects the API's own error answers
apply_patch_only_api_exception(api_outcome) ==
  CASE api_outcome = "patched" -> "True"
    [] api_outcome = "ApiException" -> "False"
    [] OTHER -> api_outcome

\* BareMetalHostManager._apply_patch: "True", "False", or the name of the
\* exception that leaves it
apply_patch(api_outcome) ==
  IF api_outcome = "patched" THEN "True" ELSE "False"

\* patch_baremetalhost: 'if image_url:' chooses between provision(), whose
\* patch sets spec.image, and deprovision(), whose patch sets spec.image and
\* spec.userData to null
patch_kind(image_url) ==
  IF Truthy(image_url) THEN "provision" ELSE "deprovision"

\* what 'if kubernetes.patch_baremetalhost(...)' sees in the handlers, and
\* the exception that leaves the handler instead, if any
patch_ok(api_outcome) == apply_patch(api_outcome) = "True"
patch_escapes(api_outcome) ==
  IF apply_patch(api_outcome) \in {"True", "False"}
  THEN None
  ELSE apply_patch(api_outcome)

\* kubernetes.patch_baremetalhost as called by the handlers: the record keeps
\* the handler that issued it (op), the host, the image_url passed, the
\* patch applied (patch), whether the API raised (raised: "Exception" stands
\* for ApiException and for every other Exception, a timeout included) and
\* the result (success)
HostCall(op, name, event_id, image, api_outcome) ==
  [Call("host", op, name, event_id, image, "", patch_ok(api_outcome), 0,
        None, <<>>, patch_ok(api_outcome))
     EXCEPT !.patch = patch_kind(image),
            !.raised = IF api_outcome = "patched" THEN None ELSE "Exception"]

\* notification.send_provisioning_notification(success=False, ...) and
\* whether it was delivered
NotifyCall(name, event_id, user, delivered) ==
  Call("notify", "send_provisioning_notification", name, event_id, None, "",
       FALSE, 0, user, <<>>, delivered)

\* notification.send_webhook_log(event_type, success, status_code, ...) and
\* whether it was delivered
LogCall(name, event_id, event_type, success, user, delivered) ==
  Call("log", "send_webhook_log", name, event_id, None, event_type, success,
       IF success THEN HTTP_200_OK ELSE HTTP_500_INTERNAL_SERVER_ERROR, user,
       <<>>, delivered)

\* SwitchManager.configure_batch_network(resource_names, user_info) and its
\* result (success)
NetworkCall(names, user, ok) ==
  Call("network", "configure_batch_network", "", "", None, "", ok, 0, user,
       names, ok)

\* api._post_batch_provision_actions(events, user_info, active_resources) is
\* entered
HookCall(names, user) ==
  Call("hook", "_post_batch_provision_actions", "", "", None, "", TRUE, 0,
       user, names, TRUE)

\* the values of config.DEPROVISION_IMAGE (unset by default) and of the
\* network-configuration enable flag
DeprovisionImages == {"", "wipe-image-url"}
NetworkConfigFlags == BOOLEAN

VARIABLES
  WEBHOOK_SECRET,            \* config.WEBHOOK_SECRET
  DEPROVISION_IMAGE,         \* config.DEPROVISION_IMAGE
  NETWORK_CONFIG_ENABLED,    \* config.NETWORK_CONFIG_ENABLED
  req,                       \* the payload being handled, with the raw body
  x_webhook_signature,       \* the X-Webhook-Signature header, until the gate
  pc,                        \* position of handle_webhook
  idx,                       \* number of events of the batch attempted so far
  processed_events_count,
  failed_event_details,
  successful_provision_events,
  calls,                     \* collaborator calls (and the entry of the
                             \* post-batch hook) of this request, in order
  response,
  switch_manager,            \* network._switch_manager, of the process
  secrets,                   \* the cluster's userdata secrets, by host
  bmh,                       \* the cluster's BareMetalHost specs, by host
  CLOUD_CONFIG_TEMPLATE,     \* kubernetes.CLOUD_CONFIG_TEMPLATE: the
                             \* ssh_authorized_keys of its user "prognose"
  last_op,                   \* the last call of the kubernetes service:
                             \* arguments, API calls in order, result
  switch_op,                 \* the call of the switch manager under way:
                             \* arguments, calls on the switch, result
  notify_op,                 \* the call of the notification service under
                             \* way: arguments, HTTP requests, result
  tasks,                     \* the requests on the server's event loop:
                             \* position of each handler, payload, outcomes
  loop_calls,                \* the collaborator calls of the process, in the
                             \* order issued, each with its request
  managers_built             \* number of SwitchManager() constructions that
                             \* returned

\* the state of the cluster and of the kubernetes module
kube == <<secrets, bmh, CLOUD_CONFIG_TEMPLATE, last_op>>

\* what the services hold besides the switch manager
\* the state of the network service besides the switch manager
net == <<switch_op>>

\* the state of the notification service
notif == <<notify_op>>

\* the event loop of the server process
loop == <<tasks, loop_calls, managers_built>>

services == <<kube, net, notif, loop>>

vars == <<WEBHOOK_SECRET, DEPROVISION_IMAGE, NETWORK_CONFIG_ENABLED, req,
          x_webhook_signature, pc, idx, processed_events_count, failed_event_details,
          successful_provision_events, calls, response, switch_manager,
          services>>

\* the hosts of the cluster and the values of payload.ssh_public_key
Hosts == {"r1", "r2"}
SshKeys == {None, "", "keyA", "keyB"}

\* no call of the kubernetes service yet
NoOp ==
  [op |-> "none", bmh_name |-> "", ssh_key |-> None, image_url |-> None,
   calls |-> <<>>, result |-> "", cloud_config |-> <<>>]

\* a userdata secret that does not exist, and one whose cloud-config
\* authorises keys for the user "prognose"
NoSecret == [exists |-> FALSE, keys |-> <<>>]
Secret(keys) == [exists |-> TRUE, keys |-> keys]

\* the cluster before the first request: hosts without image, no secret
KubeIdle ==
  /\ secrets = [h \in Hosts |-> NoSecret]
  /\ bmh = [h \in Hosts |-> [image |-> None, userData |-> None]]
  /\ CLOUD_CONFIG_TEMPLATE = <<>>
  /\ last_op = NoOp

\* user_info without the key 'username'
NoUsername == "<no username>"

\* no call of the switch manager under way
NoSwitchOp ==
  [op |-> "none", server_port_mapping |-> <<>>, resource_names |-> <<>>,
   user_info |-> NoUsername, base_vlan_id |-> 0, offset |-> 0, ports |-> <<>>, vlan_id |-> 0,
   log |-> <<>>, result |-> ""]

NetIdle == switch_op = NoSwitchOp

\* what requests.post comes to when it is not called
NoPost == [kind |-> "none", status |-> 0]

\* no call of the notification service under way
NoNotifyOp ==
  [op |-> "none", endpoint |-> None, success |-> FALSE, payload_outcome |-> "",
   post_outcome |-> NoPost, requests |-> <<>>, result |-> "", raised |-> None]

NotifIdle == notify_op = NoNotifyOp

\* the most requests the server has in flight
MaxRequests == 2
RequestIds == 1..MaxRequests

\* a request that has not arrived
NoTask ==
  [pc |-> "new", event_type |-> "", has_active |-> FALSE, api_outcome |-> "",
   config_readable |-> FALSE, switch_ok |-> FALSE, issued |-> 0]

LoopIdle ==
  /\ tasks = [t \in RequestIds |-> NoTask]
  /\ loop_calls = <<>>
  /\ managers_built = 0

ServicesIdle == KubeIdle /\ NetIdle /\ NotifIdle /\ LoopIdle

config == <<WEBHOOK_SECRET, DEPROVISION_IMAGE, NETWORK_CONFIG_ENABLED>>
locals == <<idx, processed_events_count, failed_event_details,
            successful_provision_events>>

Init ==
  /\ WEBHOOK_SECRET \in Secrets
  /\ DEPROVISION_IMAGE \in DeprovisionImages
  /\ NETWORK_CONFIG_ENABLED \in NetworkConfigFlags
  /\ req = NoRequest
  /\ x_webhook_signature = None
  /\ pc = "idle"
  /\ idx = 0
  /\ processed_events_count = 0
  /\ failed_event_details = <<>>
  /\ successful_provision_events = <<>>
  /\ calls = <<>>
  /\ response = NoResponse
  /\ switch_manager = None
  /\ ServicesIdle

(***************************************************************************)
(* Pure parts of the handlers.                                             *)
(***************************************************************************)
GeneratorObject == "<generator object>"

ResourceNamesOf(events) == [i \in 1..Len(events) |-> events[i].resource_name]

\* a gate that wants the header even when no secret is configured
verify_webhook_signature_requires_header(secret, payload_raw, signature) ==
  IF Truthy(secret)
  THEN verify_signature(secret, payload_raw, signature)
  ELSE IF Truthy(signature) THEN "True" ELSE "False"

\* api._verify_webhook_signature: "True" when the request passes the gate,
\* "False" when it raises HTTPException(403), else the exception that left
\* verify_signature
verify_webhook_signature(secret, payload_raw, signature) ==
  IF Truthy(secret)
  THEN verify_signature(secret, payload_raw, signature)
  ELSE "True"

\* a handler that clears the host again when its provision failed
handle_provision_event_clears_on_failure(resource_name, webhook_id, user_id, event_id, api_outcome, nOk, lOk) ==
  LET ok == patch_ok(api_outcome) IN
  [escaped |-> patch_escapes(api_outcome),
   result |-> ok,
   calls |->
     <<HostCall("provision", resource_name, event_id, PROVISION_IMAGE,
               api_outcome)>>
     \o (IF ok THEN <<>>
         ELSE <<HostCall("deprovision", resource_name, event_id, None,
                         "patched")>>)
     \o (IF Truthy(webhook_id) /\ Truthy(user_id)
         THEN IF ok
              THEN <<LogCall(resource_name, event_id, EVENT_START, TRUE,
                             user_id, lOk)>>
              ELSE <<NotifyCall(resource_name, event_id, user_id, nOk),
                     LogCall(resource_name, event_id, EVENT_START, FALSE,
                             user_id, lOk)>>
         ELSE <<>>)]

\* a handler that writes the notification and the audit log before the patch
handle_provision_event_logs_first(resource_name, webhook_id, user_id, event_id, api_outcome, nOk, lOk) ==
  LET ok == patch_ok(api_outcome) IN
  [escaped |-> patch_escapes(api_outcome),
   result |-> ok,
   calls |->
     (IF Truthy(webhook_id) /\ Truthy(user_id)
      THEN IF ok
           THEN <<LogCall(resource_name, event_id, EVENT_START, TRUE,
                          user_id, lOk)>>
           ELSE <<NotifyCall(resource_name, event_id, user_id, nOk),
                  LogCall(resource_name, event_id, EVENT_START, FALSE,
                          user_id, lOk)>>
      ELSE <<>>)
     \o <<HostCall("provision", resource_name, event_id, PROVISION_IMAGE,
               api_outcome)>>]

\* a handler that reports failure when the audit log could not be delivered
handle_provision_event_needs_audit_log(resource_name, webhook_id, user_id, event_id, api_outcome, nOk, lOk) ==
  LET ok == patch_ok(api_outcome) IN
  [escaped |-> patch_escapes(api_outcome),
   result |-> ok /\ ((Truthy(webhook_id) /\ Truthy(user_id)) => lOk),
   calls |->
     <<HostCall("provision", resource_name, event_id, PROVISION_IMAGE,
               api_outcome)>>
     \o (IF Truthy(webhook_id) /\ Truthy(user_id)
         THEN IF ok
              THEN <<LogCall(resource_name, event_id, EVENT_START, TRUE,
                             user_id, lOk)>>
              ELSE <<NotifyCall(resource_name, event_id, user_id, nOk),
                     LogCall(resource_name, event_id, EVENT_START, FALSE,
                             user_id, lOk)>>
         ELSE <<>>)]

\* api._handle_provision_event; ok, nOk and lOk are the results of the host
\* patch, of the notification and of the audit log (the last two are only
\* logged)
handle_provision_event(resource_name, webhook_id, user_id, event_id, api_outcome, nOk, lOk) ==
  LET ok == patch_ok(api_outcome) IN
  [escaped |-> patch_escapes(api_outcome),
   result |-> ok,
   calls |->
     <<HostCall("provision", resource_name, event_id, PROVISION_IMAGE,
               api_outcome)>>
     \o (IF Truthy(webhook_id) /\ Truthy(user_id)
         THEN IF ok
              THEN <<LogCall(resource_name, event_id, EVENT_START, TRUE,
                             user_id, lOk)>>
              ELSE <<NotifyCall(resource_name, event_id, user_id, nOk),
                     LogCall(resource_name, event_id, EVENT_START, FALSE,
                             user_id, lOk)>>
         ELSE <<>>)]

\* api._handle_deprovision_event
handle_deprovision_event(resource_name, event_id, webhook_id, user_id, api_outcome, lOk) ==
  LET deprovision_target ==
        IF Truthy(DEPROVISION_IMAGE) THEN DEPROVISION_IMAGE ELSE None
      ok == patch_ok(api_outcome)
  IN [escaped |-> patch_escapes(api_outcome),
      result |-> ok,
      calls |->
        <<HostCall("deprovision", resource_name, event_id, deprovision_target,
                   api_outcome)>>
        \o (IF Truthy(webhook_id)
            THEN <<LogCall(resource_name, event_id, EVENT_END, ok, user_id,
                           lOk)>>
            ELSE <<>>)]

\* network.get_switch_manager: the module-level _switch_manager is built at
\* the first call that finds it None and returned as it is ever after.
\* SwitchManager() loads the network configuration file and raises when it
\* cannot; _switch_manager is then left None (the result here).
get_switch_manager(manager, config_readable) ==
  IF manager = None
  THEN IF config_readable THEN "SwitchManager" ELSE None
  ELSE manager

\* a hook without the try/except around the network configuration
post_batch_provision_actions_unguarded(events, user_id, has_active, active_resources, manager, config_readable, switch_ok) ==
  IF NETWORK_CONFIG_ENABLED
  THEN IF ~has_active
       THEN [escaped |-> "TypeError", calls |-> <<>>, manager |-> manager]
       ELSE IF get_switch_manager(manager, config_readable) = None
            THEN [escaped |-> "NetworkConfigurationError", calls |-> <<>>,
                  manager |-> None]
            ELSE [escaped |-> None,
                  calls |-> <<NetworkCall(ResourceNamesOf(events)
                                            \o <<GeneratorObject>>,
                                          user_id, switch_ok)>>,
                  manager |-> get_switch_manager(manager, config_readable)]
  ELSE [escaped |-> None, calls |-> <<>>, manager |-> manager]

\* api._post_batch_provision_actions: the calls it makes, the exception that
\* leaves it (None: it returns) and the switch manager the process holds
\* afterwards.  manager is the one it holds before, config_readable tells
\* whether the network configuration file can be loaded now, and switch_ok
\* is the result of configure_batch_network.
post_batch_provision_actions(events, user_id, has_active, active_resources, manager, config_readable, switch_ok) ==
  IF NETWORK_CONFIG_ENABLED
  THEN IF ~has_active
       THEN \* iterating None raises TypeError: except Exception, logged
            [escaped |-> None, calls |-> <<>>, manager |-> manager]
       ELSE IF get_switch_manager(manager, config_readable) = None
            THEN \* SwitchManager() raised: except Exception, logged
                 [escaped |-> None, calls |-> <<>>, manager |-> None]
            ELSE [escaped |-> None,
                  calls |-> <<NetworkCall(ResourceNamesOf(events)
                                            \o <<GeneratorObject>>,
                                          user_id, switch_ok)>>,
                  manager |-> get_switch_manager(manager, config_readable)]
  ELSE [escaped |-> None, calls |-> <<>>, manager |-> manager]

\* a loop that hands the payload's user_id on as it is
provision_user_id_raw(user_id) == user_id

\* the user_id the EVENT_START loop passes: payload.user_id or "unknown"
provision_user_id(user_id) == IF Truthy(user_id) THEN user_id ELSE "unknown"

\* the failure entry handle_webhook records for an event
FailureDetail(event, action) ==
  [event_id |-> event.event_id, resource_name |-> event.resource_name,
   action |-> action]

\* models.EventData: the attribute names of an instance are the field names
\* (keycloak_id is only aliased 'keycloakId' for parsing)
EventDataAttributes == {"id", "start", "end", "resource", "keycloak_id"}

\* attribute access on a pydantic model raises AttributeError for a name that
\* is not a field
HasAttribute(attributes, name) == name \in attributes

\* the deletion of any notice would be weighed against its window
notice_needs_window_any_type(event_type) == TRUE

\* if payload.event_type == EVENT_DELETED: only a deletion is weighed
\* against the reservation window
notice_needs_window(event_type) == event_type = EVENT_DELETED

\* a branch that reads the server's clock
deletion_now_wall_clock(payload, clock) == clock

\* the instant the EVENT_DELETED branch compares (now = payload.timestamp)
deletion_now(payload, clock) == payload.timestamp

\* comparing an offset-naive with an offset-aware datetime raises TypeError
mixed_comparison(naive, a, b) == (a \in naive) # (b \in naive)

\* TRUE when evaluating reservation_start <= now < reservation_end raises:
\* the second comparison is made only when the first is true
window_comparison_raises(naive, now, reservation_start, reservation_end) ==
  \/ mixed_comparison(naive, "start", "timestamp")
  \/ /\ reservation_start <= now
     /\ mixed_comparison(naive, "timestamp", "end")

\* the activation window test of the EVENT_DELETED branch
reservation_active(now, reservation_start, reservation_end) ==
  reservation_start <= now /\ now < reservation_end

\* an early return that checks the event type before the empty batch
empty_batch_response_checks_type(event_type, user_id) ==
  IF event_type \in {EVENT_START, EVENT_END}
  THEN create_batch_success_response(Lower(event_type), 0, user_id)
  ELSE Response(400, "unrecognized_event_type", event_type, 0, None, <<>>, "")

\* the early return of handle_webhook for a batch without events
empty_batch_response(event_type, user_id) ==
  create_batch_success_response(Lower(event_type), 0, user_id)

\* a loop that stops at the first failed provision
provision_loop_pc_short_circuit(attempted, n, successes, result) ==
  IF ~result
  THEN IF successes # <<>> THEN "post_batch" ELSE "aggregate"
  ELSE IF attempted < n THEN "provision_loop"
       ELSE IF successes # <<>> THEN "post_batch" ELSE "aggregate"

\* a loop whose post-batch hook runs only when every provision succeeded
provision_loop_pc_all_or_nothing(attempted, n, successes, result) ==
  IF attempted < n THEN "provision_loop"
  ELSE IF Len(successes) = n THEN "post_batch" ELSE "aggregate"

\* where handle_webhook goes after attempting one event of an EVENT_START
\* batch: the for loop runs over every event, then the post-batch hook runs
\* if some event succeeded
provision_loop_pc(attempted, n, successes, result) ==
  IF attempted < n THEN "provision_loop"
  ELSE IF successes # <<>> THEN "post_batch" ELSE "aggregate"

\* a loop that stops at the first failed deprovision
deprovision_loop_pc_short_circuit(attempted, n, result) ==
  IF ~result THEN "aggregate"
  ELSE IF attempted < n THEN "deprovision_loop" ELSE "aggregate"

\* the same for an EVENT_END batch
deprovision_loop_pc(attempted, n, result) ==
  IF attempted < n THEN "deprovision_loop" ELSE "aggregate"

\* an aggregation that reports an error only when nothing succeeded
aggregate_batch_response_partial_is_success(event_type, failed, count, user_id) ==
  IF failed # <<>> /\ count = 0
  THEN Response(HTTP_500_INTERNAL_SERVER_ERROR, "batch_failure", event_type,
                Len(failed), None, failed, "")
  ELSE create_batch_success_response(Lower(event_type), count, user_id)

\* the end of the WebhookPayload branch: HTTPException(500) listing the
\* failures, or the batch success response
aggregate_batch_response(event_type, failed, count, user_id) ==
  IF failed # <<>>
  THEN Response(HTTP_500_INTERNAL_SERVER_ERROR, "batch_failure", event_type,
                Len(failed), None, failed, "")
  ELSE create_batch_success_response(Lower(event_type), count, user_id)

\* the responses of the EVENT_DELETED branch
deletion_response(active, result, resource_name) ==
  IF active
  THEN IF result
       THEN Response(HTTP_200_OK, "deleted_deprovisioned", "", 0, None, <<>>,
                     resource_name)
       ELSE Response(HTTP_500_INTERNAL_SERVER_ERROR,
                     "deleted_deprovision_failed", "", 0, None, <<>>,
                     resource_name)
  ELSE Response(HTTP_200_OK, "deleted_not_active", "", 0, None, <<>>,
                resource_name)

(***************************************************************************)
(* Actions.                                                                *)
(***************************************************************************)
\* FastAPI enters handle_webhook with a parsed payload
ReceiveRequest ==
  /\ pc = "idle"
  /\ req' \in Requests
  /\ x_webhook_signature' \in SignatureHeaders
  /\ pc' = "verify"
  /\ UNCHANGED <<config, services, switch_manager, locals, calls, response>>

\* raw_payload = await _verify_webhook_signature(request, x_webhook_signature)
VerifyWebhookSignature ==
  /\ pc = "verify"
  /\ LET r == verify_webhook_signature(WEBHOOK_SECRET, req.raw,
                                       x_webhook_signature)
     IN CASE r = "True" ->
               /\ pc' = "dispatch"
               /\ UNCHANGED response
          [] r = "False" ->
               /\ pc' = "done"
               /\ response' = Response(HTTP_403_FORBIDDEN, "invalid_signature",
                                       "", 0, None, <<>>, "")
          [] OTHER ->   \* an exception nothing handles
               /\ pc' = "done"
               /\ response' = Response(HTTP_500_INTERNAL_SERVER_ERROR,
                                       "internal_server_error", "", 0, None,
                                       <<>>, "")
  /\ UNCHANGED <<config, services, switch_manager, req, x_webhook_signature, locals, calls>>

\* isinstance(payload, WebhookPayload): up to the choice of the loop
HandleBatch ==
  /\ pc = "dispatch"
  /\ req.shape = "batch"
  /\ IF req.events = <<>>
     THEN /\ pc' = "done"
          /\ response' = empty_batch_response(req.event_type, req.user_id)
     ELSE /\ pc' = CASE req.event_type = EVENT_START -> "provision_loop"
                     [] req.event_type = EVENT_END -> "deprovision_loop"
                     [] OTHER -> "aggregate"
          /\ UNCHANGED response
  /\ x_webhook_signature' = None   \* the header is not read after the gate
  /\ UNCHANGED <<config, services, switch_manager, req, locals, calls>>

\* one iteration of the EVENT_START loop
ProvisionEvent ==
  /\ pc = "provision_loop"
  /\ idx < Len(req.events)
  /\ \E api_outcome \in ApiOutcomes, nOk \in BOOLEAN, lOk \in BOOLEAN :
       LET event == req.events[idx + 1]
           r == handle_provision_event(
                  event.resource_name, req.webhook_id,
                  provision_user_id(req.user_id), event.event_id, api_outcome,
                  nOk, lOk)
           succ == IF r.result
                   THEN Append(successful_provision_events, event)
                   ELSE successful_provision_events
       IN IF r.escaped # None
          THEN \* an exception nothing handles: the request ends here
               /\ calls' = calls \o SubSeq(r.calls, 1, 1)
               /\ pc' = "done"
               /\ response' = Response(HTTP_500_INTERNAL_SERVER_ERROR,
                                       "internal_server_error", "", 0, None,
                                       <<>>, "")
               /\ UNCHANGED locals
          ELSE /\ calls' = calls \o r.calls
               /\ successful_provision_events' = succ
               /\ processed_events_count' =
                    IF r.result THEN processed_events_count + 1
                    ELSE processed_events_count
               /\ failed_event_details' =
                    IF r.result THEN failed_event_details
                    ELSE Append(failed_event_details,
                                FailureDetail(event, "provision"))
               /\ idx' = idx + 1
               /\ pc' = provision_loop_pc(idx + 1, Len(req.events), succ,
                                          r.result)
               /\ UNCHANGED response
  /\ UNCHANGED <<config, services, switch_manager, req, x_webhook_signature>>

\* if successful_provision_events: _post_batch_provision_actions(...)
PostBatchProvision ==
  /\ pc = "post_batch"
  /\ \E config_readable \in BOOLEAN, switch_ok \in BOOLEAN :
       LET r == post_batch_provision_actions(
                  successful_provision_events, req.user_id,
                  req.active.has_active, req.active.active_resources,
                  switch_manager, config_readable, switch_ok)
       IN /\ switch_manager' = r.manager
          /\ calls' = calls
                      \o <<HookCall(ResourceNamesOf(successful_provision_events),
                                    req.user_id)>>
                      \o r.calls
          /\ IF r.escaped = None
             THEN /\ pc' = "aggregate"
                  /\ UNCHANGED response
             ELSE \* an exception nothing handles
                  /\ pc' = "done"
                  /\ response' = Response(HTTP_500_INTERNAL_SERVER_ERROR,
                                          "internal_server_error", "", 0,
                                          None, <<>>, "")
  /\ UNCHANGED <<config, services, req, x_webhook_signature, locals>>

\* one iteration of the EVENT_END loop
DeprovisionEvent ==
  /\ pc = "deprovision_loop"
  /\ idx < Len(req.events)
  /\ \E api_outcome \in ApiOutcomes, lOk \in BOOLEAN :
       LET event == req.events[idx + 1]
           r == handle_deprovision_event(event.resource_name, event.event_id,
                                         req.webhook_id, req.user_id,
                                         api_outcome, lOk)
       IN IF r.escaped # None
          THEN \* an exception nothing handles: the request ends here
               /\ calls' = calls \o SubSeq(r.calls, 1, 1)
               /\ pc' = "done"
               /\ response' = Response(HTTP_500_INTERNAL_SERVER_ERROR,
                                       "internal_server_error", "", 0, None,
                                       <<>>, "")
               /\ UNCHANGED <<idx, processed_events_count,
                              failed_event_details>>
          ELSE /\ calls' = calls \o r.calls
               /\ processed_events_count' =
                    IF r.result THEN processed_events_count + 1
                    ELSE processed_events_count
               /\ failed_event_details' =
                    IF r.result THEN failed_event_details
                    ELSE Append(failed_event_details,
                                FailureDetail(event, "deprovision"))
               /\ pc' = deprovision_loop_pc(idx + 1, Len(req.events),
                                            r.result)
               /\ idx' = idx + 1
               /\ UNCHANGED response
  /\ UNCHANGED <<config, services, switch_manager, req, x_webhook_signature, successful_provision_events>>

\* if failed_event_details: raise HTTPException(500) else batch success
AggregateBatch ==
  /\ pc = "aggregate"
  /\ response' = aggregate_batch_response(req.event_type, failed_event_details,
                                          processed_events_count, req.user_id)
  /\ pc' = "done"
  /\ UNCHANGED <<config, services, switch_manager, req, x_webhook_signature, locals, calls>>

\* isinstance(payload, EventWebhookPayload): the whole branch.  wallClock is
\* the server's clock at that moment.
HandleNotice ==
  /\ pc = "dispatch"
  /\ req.shape = "notice"
  /\ \E wallClock \in Instants, api_outcome \in ApiOutcomes, lOk \in BOOLEAN :
     IF notice_needs_window(req.event_type)
     THEN IF window_comparison_raises(req.naive, deletion_now(req, wallClock),
                                      req.start, req.end)
          THEN \* TypeError, unhandled: 500
               /\ response' = Response(HTTP_500_INTERNAL_SERVER_ERROR,
                                       "internal_server_error", "", 0, None,
                                       <<>>, "")
               /\ UNCHANGED calls
          ELSE
          IF reservation_active(deletion_now(req, wallClock), req.start, req.end)
          THEN IF HasAttribute(EventDataAttributes, "keycloakId")
               THEN LET r == handle_deprovision_event(
                               req.resource_name, req.data_id, req.webhook_id,
                               req.user_id, api_outcome, lOk)
                    IN IF r.escaped # None
                       THEN /\ calls' = calls \o SubSeq(r.calls, 1, 1)
                            /\ response' =
                                 Response(HTTP_500_INTERNAL_SERVER_ERROR,
                                          "internal_server_error", "", 0,
                                          None, <<>>, "")
                       ELSE /\ calls' = calls \o r.calls
                            /\ response' = deletion_response(
                                             TRUE, r.result, req.resource_name)
               ELSE \* evaluating user_id=payload.data.keycloakId raises
                    \* AttributeError before the call: unhandled, 500
                    /\ response' = Response(HTTP_500_INTERNAL_SERVER_ERROR,
                                            "internal_server_error", "", 0,
                                            None, <<>>, "")
                    /\ UNCHANGED calls
          ELSE /\ response' = deletion_response(FALSE, FALSE, req.resource_name)
               /\ UNCHANGED calls
     ELSE /\ response' = Response(HTTP_200_OK, "no_action_needed",
                                  req.event_type, 0, None, <<>>, "")
          /\ UNCHANGED calls
  /\ pc' = "done"
  /\ x_webhook_signature' = None   \* the header is not read after the gate
  /\ UNCHANGED <<config, services, switch_manager, req, locals>>

\* the response is sent; everything the handler held is dropped
Return ==
  /\ pc = "done"
  /\ pc' = "idle"
  /\ req' = NoRequest
  /\ x_webhook_signature' = None
  /\ idx' = 0
  /\ processed_events_count' = 0
  /\ failed_event_details' = <<>>
  /\ successful_provision_events' = <<>>
  /\ calls' = <<>>
  /\ response' = NoResponse
  /\ UNCHANGED <<config, services, switch_manager>>

Next ==
  \/ ReceiveRequest
  \/ VerifyWebhookSignature
  \/ HandleBatch
  \/ ProvisionEvent
  \/ PostBatchProvision
  \/ DeprovisionEvent
  \/ AggregateBatch
  \/ HandleNotice
  \/ Return

Spec == Init /\ [][Next]_vars

(***************************************************************************)
(* The route as FastAPI serves it.  handle_webhook declares its payload    *)
(* parameter as Union[WebhookPayload, EventWebhookPayload]: the body is    *)
(* parsed and validated into one of the two models before the function is  *)
(* entered, and a body that fits neither is answered 422 without entering  *)
(* it.                                                                     *)
(***************************************************************************)
\* the body of a request, before it is parsed: the payload it would make,
\* not yet classified
BodyOf(payload) == [payload EXCEPT !.shape = "body"]

\* a one-event EVENT_START batch and the notice of a deletion inside the
\* reservation, from which the bodies below differ in one respect each
BaseBatch ==
  [shape |-> "body", event_type |-> EVENT_START, webhook_id |-> "w1",
   user_id |-> "u1", events |-> <<MkEvent("e1", "r1")>>, event_count |-> 1,
   active |-> [has_active |-> FALSE, active_resources |-> <<>>],
   timestamp |-> 0, start |-> 0, end |-> 0, resource_name |-> "",
   data_id |-> "", has_events |-> TRUE, has_data |-> FALSE,
   has_event_count |-> TRUE, well_formed |-> TRUE, naive |-> {},
   raw |-> "b1"]

BaseNotice ==
  [shape |-> "body", event_type |-> EVENT_DELETED, webhook_id |-> "w1",
   user_id |-> None, events |-> <<>>, event_count |-> 0,
   active |-> [has_active |-> FALSE, active_resources |-> <<>>],
   timestamp |-> 0, start |-> 0, end |-> 1, resource_name |-> "r1",
   data_id |-> "7", has_events |-> FALSE, has_data |-> TRUE,
   has_event_count |-> FALSE, well_formed |-> TRUE, naive |-> {},
   raw |-> "b1"]

\* bodies that are not JSON, or JSON that fits neither payload model
InvalidRequests ==
  {[BaseBatch EXCEPT !.well_formed = FALSE],
   [BaseBatch EXCEPT !.has_events = FALSE, !.events = <<>>],
   [BaseNotice EXCEPT !.has_data = FALSE]}

\* bodies the payload models say nothing against: an eventCount that is not
\* the number of events, an event that ends before it starts, datetimes
\* without offset, a batch of EVENT_DELETED, and bodies with both an events
\* array and a data object (with and without eventCount)
UncheckedBodies ==
  {[BaseBatch EXCEPT !.event_count = 2],
   [BaseBatch EXCEPT !.events = <<[MkEvent("e1", "r1") EXCEPT
                                      !.event_start = 1, !.event_end = 0]>>],
   [BaseBatch EXCEPT !.naive = {"timestamp"}],
   [BaseBatch EXCEPT !.event_type = EVENT_DELETED],
   [BaseBatch EXCEPT !.has_data = TRUE, !.resource_name = "r1",
                     !.data_id = "7", !.end = 1],
   [BaseNotice EXCEPT !.has_events = TRUE,
                      !.events = <<MkEvent("e1", "r1")>>]}
  \cup {[BaseNotice EXCEPT !.naive = n] : n \in (SUBSET TimestampFields) \ {{}}}

HttpRequests ==
  {BodyOf(r) : r \in Requests} \cup InvalidRequests \cup UncheckedBodies

\* Union[WebhookPayload, EventWebhookPayload]: the model the body validates
\* as.  WebhookPayload requires events and eventCount, EventWebhookPayload
\* requires data; keys a model does not name are ignored.
classify(body) ==
  IF ~body.well_formed THEN "malformed_json"
  ELSE IF body.has_events /\ body.has_event_count THEN "batch"
  ELSE IF body.has_data THEN "notice"
  ELSE "no_schema"

\* TRUE when the body fits WebhookPayload or EventWebhookPayload
body_validates(body) == classify(body) \in {"batch", "notice"}

\* a POST /webhook arrives: any body, any header
ReceiveHttpRequest ==
  /\ pc = "idle"
  /\ req' \in HttpRequests
  /\ x_webhook_signature' \in SignatureHeaders
  /\ pc' = "validate"
  /\ UNCHANGED <<config, services, switch_manager, locals, calls, response>>

\* the body parameter is resolved; handle_webhook is entered only with a
\* valid payload
ValidateBody ==
  /\ pc = "validate"
  /\ IF body_validates(req)
     THEN /\ pc' = "verify"
          /\ req' = [req EXCEPT !.shape = classify(req)]
          /\ UNCHANGED response
     ELSE /\ pc' = "done"
          /\ response' = Response(422, "request_validation_error", "", 0,
                                  None, <<>>, "")
          /\ UNCHANGED req
  /\ UNCHANGED <<config, services, switch_manager, x_webhook_signature, locals, calls>>

HttpNext ==
  \/ ReceiveHttpRequest
  \/ ValidateBody
  \/ VerifyWebhookSignature
  \/ HandleBatch
  \/ ProvisionEvent
  \/ PostBatchProvision
  \/ DeprovisionEvent
  \/ AggregateBatch
  \/ HandleNotice
  \/ Return

HttpSpec == Init /\ [][HttpNext]_vars

(***************************************************************************)
(* The kubernetes service (app/services/kubernetes.py) against a cluster:  *)
(* the userdata secrets and the BareMetalHost specs it writes.             *)
(***************************************************************************)
\* what the cluster API does with one request on a secret: it serves it, it
\* answers with an error status other than 409, or the client raises
\* something else (a timeout)
SecretOutcomes == {"ok", "ApiException", "Exception"}

\* f"{bmh_name}-userdata"
secret_name(bmh_name) == bmh_name \o "-userdata"

\* one request to the cluster API and what came of it
K8sCall(api, name, outcome) == [api |-> api, name |-> name, outcome |-> outcome]

\* a _generate_cloud_config that fills in the user of the template itself
generate_cloud_config_in_place(template, ssh_key) ==
  [cloud_config |-> Append(template, ssh_key),
   template |-> Append(template, ssh_key)]

\* UserDataSecretManager._generate_cloud_config: the ssh_authorized_keys of
\* "prognose" in the generated cloud-config, and the template afterwards.
\* The users are copied one by one and the key list of the copy is replaced
\* by [ssh_key], so the template keeps its list.
generate_cloud_config(template, ssh_key) ==
  [cloud_config |-> <<ssh_key>>, template |-> template]

\* a create_or_update that lets the error of the update through
create_or_update_update_error_escapes(secret, bmh_name, ssh_key, template, create_outcome, update_outcome) ==
  LET g == generate_cloud_config(template, ssh_key)
      create(o) == K8sCall("create_namespaced_secret", secret_name(bmh_name), o)
      update(o) == K8sCall("patch_namespaced_secret", secret_name(bmh_name), o)
  IN IF create_outcome = "ok" /\ ~secret.exists
     THEN [result |-> "True", secret |-> Secret(g.cloud_config),
           template |-> g.template, cloud_config |-> g.cloud_config,
           calls |-> <<create("201")>>]
     ELSE IF create_outcome = "ok"
     THEN IF update_outcome = "ok"
          THEN [result |-> "True", secret |-> Secret(g.cloud_config),
                template |-> g.template, cloud_config |-> g.cloud_config,
                calls |-> <<create("409"), update("200")>>]
          ELSE [result |-> update_outcome, secret |-> secret,
                template |-> g.template, cloud_config |-> g.cloud_config,
                calls |-> <<create("409"), update(update_outcome)>>]
     ELSE [result |-> "False", secret |-> secret, template |-> g.template,
           cloud_config |-> g.cloud_config,
           calls |-> <<create(create_outcome)>>]

\* UserDataSecretManager.create_or_update on the secret of one host (None:
\* there is none).  create_outcome and update_outcome are what the API does
\* with the two requests; a create of a secret that exists is answered 409.
\* The result is "True", "False" or the name of the exception that leaves.
create_or_update(secret, bmh_name, ssh_key, template, create_outcome, update_outcome) ==
  LET g == generate_cloud_config(template, ssh_key)
      create(o) == K8sCall("create_namespaced_secret", secret_name(bmh_name), o)
      update(o) == K8sCall("patch_namespaced_secret", secret_name(bmh_name), o)
  IN IF create_outcome = "ok" /\ ~secret.exists
     THEN [result |-> "True", secret |-> Secret(g.cloud_config),
           template |-> g.template, cloud_config |-> g.cloud_config,
           calls |-> <<create("201")>>]
     ELSE IF create_outcome = "ok"
     THEN \* 409: the secret exists, patch it
          IF update_outcome = "ok"
          THEN [result |-> "True", secret |-> Secret(g.cloud_config),
                template |-> g.template, cloud_config |-> g.cloud_config,
                calls |-> <<create("409"), update("200")>>]
          ELSE \* raised inside the handler: except Exception
               [result |-> "False", secret |-> secret,
                template |-> g.template, cloud_config |-> g.cloud_config,
                calls |-> <<create("409"), update(update_outcome)>>]
     ELSE \* another status, or except Exception
          [result |-> "False", secret |-> secret, template |-> g.template,
           cloud_config |-> g.cloud_config,
           calls |-> <<create(create_outcome)>>]

\* BareMetalHostManager._create_provision_patch, _create_deprovision_patch:
\* the spec fields the patch sets
create_provision_patch(image_url, bmh_name) ==
  [image |-> image_url, userData |-> secret_name(bmh_name)]
create_deprovision_patch == [image |-> None, userData |-> None]

\* the outcome of a service call: result, cluster and template afterwards,
\* API calls made
KubeOutcome(result, secret, host, template, cloud_config, kcalls) ==
  [result |-> result, secret |-> secret, host |-> host,
   template |-> template, cloud_config |-> cloud_config, calls |-> kcalls]

\* a provision that patches the host before it writes the secret
provision_patch_first(secret, host, template, bmh_name, image_url, ssh_key, create_outcome, update_outcome, api_outcome) ==
  LET patch == create_provision_patch(image_url, bmh_name)
      p == K8sCall("patch_namespaced_custom_object", bmh_name, api_outcome)
      patched == IF patch_ok(api_outcome) THEN patch ELSE host
      r == create_or_update(secret, bmh_name, ssh_key, template,
                            create_outcome, update_outcome)
  IN IF ~patch_ok(api_outcome)
     THEN KubeOutcome("False", secret, host, template, <<>>, <<p>>)
     ELSE IF Truthy(ssh_key)
     THEN KubeOutcome(r.result, r.secret, patched, r.template,
                      r.cloud_config, <<p>> \o r.calls)
     ELSE KubeOutcome("True", secret, patched, template, <<>>, <<p>>)

\* BareMetalHostManager.provision
provision(secret, host, template, bmh_name, image_url, ssh_key, create_outcome, update_outcome, api_outcome) ==
  LET patch == create_provision_patch(image_url, bmh_name)
      p == K8sCall("patch_namespaced_custom_object", bmh_name, api_outcome)
      patched == IF patch_ok(api_outcome) THEN patch ELSE host
      r == create_or_update(secret, bmh_name, ssh_key, template,
                            create_outcome, update_outcome)
  IN IF Truthy(ssh_key)
     THEN IF r.result = "True"
          THEN KubeOutcome(apply_patch(api_outcome), r.secret, patched,
                           r.template, r.cloud_config, r.calls \o <<p>>)
          ELSE \* if not create_or_update(...): return False
               KubeOutcome(r.result, r.secret, host, r.template,
                           r.cloud_config, r.calls)
     ELSE KubeOutcome(apply_patch(api_outcome), secret, patched, template,
                      <<>>, <<p>>)

\* BareMetalHostManager.deprovision
deprovision(secret, host, template, bmh_name, api_outcome) ==
  KubeOutcome(apply_patch(api_outcome), secret,
              IF patch_ok(api_outcome) THEN create_deprovision_patch ELSE host,
              template, <<>>,
              <<K8sCall("patch_namespaced_custom_object", bmh_name,
                        api_outcome)>>)

\* kubernetes.patch_baremetalhost
patch_baremetalhost(secret, host, template, bmh_name, image_url, ssh_key, create_outcome, update_outcome, api_outcome) ==
  IF patch_kind(image_url) = "provision"
  THEN provision(secret, host, template, bmh_name, image_url, ssh_key,
                 create_outcome, update_outcome, api_outcome)
  ELSE deprovision(secret, host, template, bmh_name, api_outcome)

\* the cluster and the template after a service call on one host
KubeApply(op, bmh_name, image_url, ssh_key, r) ==
  /\ secrets' = [secrets EXCEPT ![bmh_name] = r.secret]
  /\ bmh' = [bmh EXCEPT ![bmh_name] = r.host]
  /\ CLOUD_CONFIG_TEMPLATE' = r.template
  /\ last_op' = [op |-> op, bmh_name |-> bmh_name, ssh_key |-> ssh_key,
                 image_url |-> image_url, calls |-> r.calls,
                 result |-> r.result, cloud_config |-> r.cloud_config]

\* the handler is not part of these runs
handler == <<WEBHOOK_SECRET, DEPROVISION_IMAGE, NETWORK_CONFIG_ENABLED, req,
             x_webhook_signature, pc, idx, processed_events_count,
             failed_event_details, successful_provision_events, calls,
             response, switch_manager>>

HandlerAtRest ==
  /\ WEBHOOK_SECRET = None
  /\ DEPROVISION_IMAGE = ""
  /\ NETWORK_CONFIG_ENABLED = TRUE
  /\ req = NoRequest
  /\ x_webhook_signature = None
  /\ pc = "idle"
  /\ idx = 0
  /\ processed_events_count = 0
  /\ failed_event_details = <<>>
  /\ successful_provision_events = <<>>
  /\ calls = <<>>
  /\ response = NoResponse
  /\ switch_manager = None

\* the network service is not part of the runs of the kubernetes service
KubeRest == <<handler, net, notif, loop>>

\* _handle_provision_event for one event of an EVENT_START batch:
\* patch_baremetalhost(resource_name, config.PROVISION_IMAGE, ssh_public_key)
StartEvent ==
  \E bmh_name \in Hosts, ssh_key \in SshKeys,
     create_outcome \in SecretOutcomes, update_outcome \in SecretOutcomes,
     api_outcome \in ApiOutcomes :
    /\ KubeApply("provision", bmh_name, PROVISION_IMAGE, ssh_key,
                 patch_baremetalhost(secrets[bmh_name], bmh[bmh_name],
                                     CLOUD_CONFIG_TEMPLATE, bmh_name,
                                     PROVISION_IMAGE, ssh_key, create_outcome,
                                     update_outcome, api_outcome))
    /\ UNCHANGED KubeRest

\* _handle_deprovision_event for one event of an EVENT_END batch or for an
\* active deletion: patch_baremetalhost(resource_name, None)
EndEvent ==
  \E bmh_name \in Hosts, api_outcome \in ApiOutcomes :
    /\ KubeApply("deprovision", bmh_name, None, None,
                 patch_baremetalhost(secrets[bmh_name], bmh[bmh_name],
                                     CLOUD_CONFIG_TEMPLATE, bmh_name, None,
                                     None, "ok", "ok", api_outcome))
    /\ UNCHANGED KubeRest

\* UserDataSecretManager.create_or_update called on its own
CreateOrUpdate ==
  \E bmh_name \in Hosts, ssh_key \in SshKeys \ {None, ""},
     create_outcome \in SecretOutcomes, update_outcome \in SecretOutcomes :
    LET r == create_or_update(secrets[bmh_name], bmh_name, ssh_key,
                              CLOUD_CONFIG_TEMPLATE, create_outcome,
                              update_outcome)
    IN /\ KubeApply("create_or_update", bmh_name, None, ssh_key,
                    KubeOutcome(r.result, r.secret, bmh[bmh_name],
                                r.template, r.cloud_config, r.calls))
       /\ UNCHANGED KubeRest

KubeInit == HandlerAtRest /\ ServicesIdle

KubeNext ==
  \/ StartEvent
  \/ EndEvent
  \/ CreateOrUpdate

KubeSpec == KubeInit /\ [][KubeNext]_vars

(***************************************************************************)
(* The network service (services/network.py): the switch manager's calls  *)
(* on the switch, in the order it issues them.                            *)
(***************************************************************************)
\* the longest resource_names list, the highest switch port and the
\* longest list of ports handed to the switch manager
MaxNames == 2
MaxPort == 4
MaxPorts == 3

\* resource names the switch manager is asked about; "r9" has no port in
\* either mapping
SwitchNames == {"r1", "r2", "r9"}

\* the lists api._post_batch_provision_actions or another caller hands over
\* (the former appends a generator object to the names)
ResourceNameLists ==
  UNION {[1..n -> SwitchNames \cup {GeneratorObject}] : n \in 0..MaxNames}

\* config['server_port_mapping'] of two installations
PortMappings ==
  {("r1" :> 2) @@ ("r2" :> 1), ("r1" :> 1) @@ ("r2" :> 3)}

\* config['vlan']['base_id'] of several installations
BaseVlanIds == {0, 1, 100, 3195, 3196, 4094, 4095, 8188}

\* user_info without the key 'username', with username None, with a name
UserInfos == {NoUsername, None, "alice"}

\* the modulus of the hash offset and the highest VLAN id
VLAN_OFFSET_MODULUS == 900
MAX_VLAN_ID == 4094

\* what the connection, the two configuration steps and the disconnection
\* can come to
SwitchOutcomes == {"ok", "error"}

\* int(hashlib.md5(hash_input.encode()).hexdigest()[:4], 16) for the hash
\* inputs of these names and users
MD5Prefix ==
  ("unknown:" :> 30986) @@
  ("unknown:r1" :> 18340) @@
  ("unknown:r2" :> 23060) @@
  ("unknown:r9" :> 4075) @@
  ("unknown:r1:r1" :> 24980) @@
  ("unknown:r1:r2" :> 37184) @@
  ("unknown:r1:r9" :> 46847) @@
  ("unknown:r2:r2" :> 39691) @@
  ("unknown:r2:r9" :> 58832) @@
  ("unknown:r9:r9" :> 34789) @@
  ("unknown:r1:r1:r1" :> 13715) @@
  ("unknown:r1:r1:r2" :> 61360) @@
  ("unknown:r1:r1:r9" :> 51002) @@
  ("unknown:r1:r2:r2" :> 17892) @@
  ("unknown:r1:r2:r9" :> 15130) @@
  ("unknown:r1:r9:r9" :> 8950) @@
  ("unknown:r2:r2:r2" :> 36590) @@
  ("unknown:r2:r2:r9" :> 44273) @@
  ("unknown:r2:r9:r9" :> 33466) @@
  ("unknown:r9:r9:r9" :> 55899) @@
  ("None:" :> 26694) @@
  ("None:r1" :> 6643) @@
  ("None:r2" :> 55718) @@
  ("None:r9" :> 52991) @@
  ("None:r1:r1" :> 34350) @@
  ("None:r1:r2" :> 55977) @@
  ("None:r1:r9" :> 64245) @@
  ("None:r2:r2" :> 8503) @@
  ("None:r2:r9" :> 37490) @@
  ("None:r9:r9" :> 54342) @@
  ("None:r1:r1:r1" :> 50980) @@
  ("None:r1:r1:r2" :> 17752) @@
  ("None:r1:r1:r9" :> 49357) @@
  ("None:r1:r2:r2" :> 3198) @@
  ("None:r1:r2:r9" :> 41402) @@
  ("None:r1:r9:r9" :> 49367) @@
  ("None:r2:r2:r2" :> 16424) @@
  ("None:r2:r2:r9" :> 19224) @@
  ("None:r2:r9:r9" :> 31438) @@
  ("None:r9:r9:r9" :> 51507) @@
  ("alice:" :> 30469) @@
  ("alice:r1" :> 29827) @@
  ("alice:r2" :> 54288) @@
  ("alice:r9" :> 29655) @@
  ("alice:r1:r1" :> 25908) @@
  ("alice:r1:r2" :> 10671) @@
  ("alice:r1:r9" :> 65528) @@
  ("alice:r2:r2" :> 24352) @@
  ("alice:r2:r9" :> 44712) @@
  ("alice:r9:r9" :> 49606) @@
  ("alice:r1:r1:r1" :> 22043) @@
  ("alice:r1:r1:r2" :> 58454) @@
  ("alice:r1:r1:r9" :> 26617) @@
  ("alice:r1:r2:r2" :> 46519) @@
  ("alice:r1:r2:r9" :> 26841) @@
  ("alice:r1:r9:r9" :> 14531) @@
  ("alice:r2:r2:r2" :> 27225) @@
  ("alice:r2:r2:r9" :> 30824) @@
  ("alice:r2:r9:r9" :> 52522) @@
  ("alice:r9:r9:r9" :> 7795)

\* str order of the resource names
NameRank == ("r1" :> 1) @@ ("r2" :> 2) @@ ("r9" :> 3)

\* sorted(resource_names) for a list of str
RECURSIVE sorted_names(_)
sorted_names(names) ==
  IF names = <<>> THEN <<>>
  ELSE LET rest == sorted_names(Tail(names))
           before == SelectSeq(rest, LAMBDA n : NameRank[n] < NameRank[names[1]])
           after == SelectSeq(rest, LAMBDA n : NameRank[n] >= NameRank[names[1]])
       IN before \o <<names[1]>> \o after

\* ':'.join(names)
RECURSIVE join_names(_)
join_names(names) ==
  IF names = <<>> THEN ""
  ELSE IF Len(names) = 1 THEN names[1]
  ELSE names[1] \o ":" \o join_names(Tail(names))

\* user_info.get('username', 'unknown') as the f-string formats it
hash_username(user_info) ==
  IF user_info = NoUsername THEN "unknown"
  ELSE IF user_info = None THEN "None"
  ELSE user_info

\* f"{username}:{':'.join(sorted_resources)}"
hash_input(resource_names, user_info) ==
  hash_username(user_info) \o ":" \o join_names(sorted_names(resource_names))

\* int(hash_value[:4], 16) % 900
vlan_offset(resource_names, user_info) ==
  MD5Prefix[hash_input(resource_names, user_info)] % VLAN_OFFSET_MODULUS

\* base_vlan_id + vlan_offset, brought back into 1..4094 when above it
vlan_id_for_offset(base_vlan_id, offset) ==
  IF base_vlan_id + offset > MAX_VLAN_ID
  THEN ((base_vlan_id + offset) % MAX_VLAN_ID) + 1
  ELSE base_vlan_id + offset

\* SwitchManager._generate_vlan_id: the id, or the exception raised when a
\* name is not a str (sorted or join raises TypeError)
generate_vlan_id(resource_names, user_info, base_vlan_id) ==
  IF \E i \in 1..Len(resource_names) : resource_names[i] = GeneratorObject
  THEN [raised |-> "TypeError", offset |-> 0, vlan_id |-> 0]
  ELSE [raised |-> None, offset |-> vlan_offset(resource_names, user_info),
        vlan_id |-> vlan_id_for_offset(base_vlan_id,
                                       vlan_offset(resource_names, user_info))]

\* the keys of a dict filled in this order: a repeated key keeps its place
RECURSIVE DictKeys(_)
DictKeys(keys) ==
  IF keys = <<>> THEN <<>>
  ELSE LET front == DictKeys(SubSeq(keys, 1, Len(keys) - 1))
           last == keys[Len(keys)]
       IN IF \E i \in 1..Len(front) : front[i] = last
          THEN front ELSE Append(front, last)

\* SwitchManager._get_server_ports, then list(server_ports.values()): the
\* ports of the names that have one, names without a port skipped
get_server_ports(server_port_mapping, resource_names) ==
  LET mapped == DictKeys(SelectSeq(resource_names,
                                   LAMBDA n : n \in DOMAIN server_port_mapping))
  IN [i \in 1..Len(mapped) |-> server_port_mapping[mapped[i]]]

\* ports.sort()
RECURSIVE sorted_ports(_)
sorted_ports(ports) ==
  IF ports = <<>> THEN <<>>
  ELSE LET rest == sorted_ports(Tail(ports))
           before == SelectSeq(rest, LAMBDA p : p < ports[1])
           after == SelectSeq(rest, LAMBDA p : p >= ports[1])
       IN before \o <<ports[1]>> \o after

\* one element of the interface selection: f"Twe1/0/{start}" (dashed FALSE)
\* or f"Twe1/0/{start}-{end}" (dashed TRUE)
PortRange(start, end) ==
  [start |-> start, end |-> end, dashed |-> start # end]

\* the grouping loop of _assign_ports_to_vlan over ports[1:], from
\* position i with the current start and end and the ranges appended so far
RECURSIVE group_ports(_, _, _, _, _)
group_ports(ports, i, start, end, port_ranges) ==
  IF i > Len(ports)
  THEN Append(port_ranges, PortRange(start, end))
  ELSE IF ports[i] = end + 1
       THEN group_ports(ports, i + 1, start, ports[i], port_ranges)
       ELSE group_ports(ports, i + 1, ports[i], ports[i],
                        Append(port_ranges, PortRange(start, end)))

\* no interface selection
NoInterface == [range |-> FALSE, ranges |-> <<>>]

\* an interface selection grouped without sorting the ports first
interface_selection_unsorted(ports) ==
  IF Len(ports) = 1
  THEN [range |-> FALSE, ranges |-> <<PortRange(ports[1], ports[1])>>]
  ELSE [range |-> TRUE,
        ranges |-> group_ports(ports, 2, ports[1], ports[1], <<>>)]

\* the interface selection _assign_ports_to_vlan builds: "interface
\* Twe1/0/p" for one port, "interface range ..." for several
interface_selection(ports) ==
  IF Len(ports) = 1
  THEN [range |-> FALSE, ranges |-> <<PortRange(ports[1], ports[1])>>]
  ELSE LET s == sorted_ports(ports)
       IN [range |-> TRUE, ranges |-> group_ports(s, 2, s[1], s[1], <<>>)]

\* one call on the switch: ConnectHandler(...), _create_vlan,
\* _assign_ports_to_vlan, device.disconnect()
SwitchCall(op, vlan_id, interface, outcome) ==
  [op |-> op, vlan_id |-> vlan_id, interface |-> interface,
   outcome |-> outcome]

\* SwitchManager._assign_ports_to_vlan: its call on the switch and its
\* result (any exception is caught and gives False)
assign_ports_to_vlan(ports, vlan_id, assign_outcome) ==
  [result |-> IF assign_outcome = "ok" THEN "True" ELSE "False",
   log |-> <<SwitchCall("assign_ports", vlan_id, interface_selection(ports),
                        assign_outcome)>>]

\* SwitchManager._create_vlan, likewise
create_vlan(vlan_id, create_outcome) ==
  [result |-> IF create_outcome = "ok" THEN "True" ELSE "False",
   log |-> <<SwitchCall("create_vlan", vlan_id, NoInterface, create_outcome)>>]

\* what configure_batch_network comes to: result, calls on the switch in
\* order, the ports and the VLAN id it worked with
NetOutcome(result, log, ports, vlan_id) ==
  [result |-> result, log |-> log, ports |-> ports, vlan_id |-> vlan_id]

\* a configure_batch_network that disconnects only after both steps
configure_batch_network_no_finally(server_port_mapping, base_vlan_id, resource_names, user_info, connect_outcome, create_outcome, assign_outcome, disconnect_outcome) ==
  LET ports == get_server_ports(server_port_mapping, resource_names)
      vlan == generate_vlan_id(resource_names, user_info, base_vlan_id)
      connect == <<SwitchCall("connect", 0, NoInterface, connect_outcome)>>
      created == create_vlan(vlan.vlan_id, create_outcome)
      assigned == assign_ports_to_vlan(ports, vlan.vlan_id, assign_outcome)
      disconnect == <<SwitchCall("disconnect", 0, NoInterface,
                                 disconnect_outcome)>>
  IN IF resource_names = <<>> THEN NetOutcome("True", <<>>, <<>>, 0)
     ELSE IF ports = <<>> THEN NetOutcome("True", <<>>, ports, 0)
     ELSE IF vlan.raised # None THEN NetOutcome("False", <<>>, ports, 0)
     ELSE IF connect_outcome # "ok"
          THEN NetOutcome("False", connect, ports, vlan.vlan_id)
     ELSE IF created.result = "False"
          THEN NetOutcome("False", connect \o created.log, ports, vlan.vlan_id)
     ELSE IF assigned.result = "False"
          THEN NetOutcome("False", connect \o created.log \o assigned.log,
                          ports, vlan.vlan_id)
     ELSE NetOutcome(IF disconnect_outcome = "ok" THEN "True" ELSE "False",
                     connect \o created.log \o assigned.log \o disconnect,
                     ports, vlan.vlan_id)

\* SwitchManager.configure_batch_network
configure_batch_network(server_port_mapping, base_vlan_id, resource_names, user_info, connect_outcome, create_outcome, assign_outcome, disconnect_outcome) ==
  LET ports == get_server_ports(server_port_mapping, resource_names)
      vlan == generate_vlan_id(resource_names, user_info, base_vlan_id)
      connect == <<SwitchCall("connect", 0, NoInterface, connect_outcome)>>
      created == create_vlan(vlan.vlan_id, create_outcome)
      assigned == assign_ports_to_vlan(ports, vlan.vlan_id, assign_outcome)
      \* finally: device.disconnect(); when it raises, except Exception
      disconnect == <<SwitchCall("disconnect", 0, NoInterface,
                                 disconnect_outcome)>>
      closed(result) == IF disconnect_outcome = "ok" THEN result ELSE "False"
  IN IF resource_names = <<>> THEN NetOutcome("True", <<>>, <<>>, 0)
     ELSE IF ports = <<>> THEN NetOutcome("True", <<>>, ports, 0)
     ELSE IF vlan.raised # None THEN NetOutcome("False", <<>>, ports, 0)
     ELSE IF connect_outcome # "ok"
          THEN NetOutcome("False", connect, ports, vlan.vlan_id)
     ELSE IF created.result = "False"
          THEN NetOutcome(closed("False"),
                          connect \o created.log \o disconnect,
                          ports, vlan.vlan_id)
     ELSE IF assigned.result = "False"
          THEN NetOutcome(closed("False"),
                          connect \o created.log \o assigned.log \o disconnect,
                          ports, vlan.vlan_id)
     ELSE NetOutcome(closed("True"),
                     connect \o created.log \o assigned.log \o disconnect,
                     ports, vlan.vlan_id)

\* the lists of ports handed to _assign_ports_to_vlan
PortLists == UNION {[1..n -> 1..MaxPort] : n \in 1..MaxPorts}

\* the switch manager's record of a call
SwitchOp(op, server_port_mapping, resource_names, user_info, base_vlan_id, offset, r) ==
  [op |-> op, server_port_mapping |-> server_port_mapping,
   resource_names |-> resource_names, user_info |-> user_info,
   base_vlan_id |-> base_vlan_id, offset |-> offset, ports |-> r.ports,
   vlan_id |-> r.vlan_id, log |-> r.log, result |-> r.result]

\* the kubernetes service is not part of these runs
NetRest == <<handler, kube, notif, loop>>

\* a caller hands resource names and user to configure_batch_network
ConfigureBatchNetwork ==
  \E server_port_mapping \in PortMappings, base_vlan_id \in BaseVlanIds,
     resource_names \in ResourceNameLists, user_info \in UserInfos,
     connect_outcome \in SwitchOutcomes, create_outcome \in SwitchOutcomes,
     assign_outcome \in SwitchOutcomes, disconnect_outcome \in SwitchOutcomes :
    /\ switch_op = NoSwitchOp
    /\ switch_op' = SwitchOp("configure_batch_network", server_port_mapping,
                             resource_names, user_info, base_vlan_id, 0,
                             configure_batch_network(server_port_mapping,
                               base_vlan_id, resource_names, user_info,
                               connect_outcome, create_outcome, assign_outcome,
                               disconnect_outcome))
    /\ UNCHANGED NetRest

\* _generate_vlan_id on names and user
GenerateVlanId ==
  \E base_vlan_id \in BaseVlanIds, resource_names \in ResourceNameLists,
     user_info \in UserInfos :
    LET vlan == generate_vlan_id(resource_names, user_info, base_vlan_id)
    IN /\ switch_op = NoSwitchOp
       /\ switch_op' = SwitchOp("generate_vlan_id", <<>>, resource_names, user_info,
                                base_vlan_id, vlan.offset,
                                NetOutcome(IF vlan.raised = None THEN "int"
                                           ELSE vlan.raised,
                                           <<>>, <<>>, vlan.vlan_id))
       /\ UNCHANGED NetRest

\* the last lines of _generate_vlan_id on a hash offset of any input
VlanIdForOffset ==
  \E base_vlan_id \in BaseVlanIds, offset \in 0..(VLAN_OFFSET_MODULUS - 1) :
    /\ switch_op = NoSwitchOp
    /\ switch_op' = SwitchOp("vlan_id_for_offset", <<>>, <<>>, NoUsername,
                             base_vlan_id, offset,
                             NetOutcome("int", <<>>, <<>>,
                                        vlan_id_for_offset(base_vlan_id, offset)))
    /\ UNCHANGED NetRest

\* _assign_ports_to_vlan on a list of ports
AssignPortsToVlan ==
  \E ports \in PortLists, assign_outcome \in SwitchOutcomes :
    LET r == assign_ports_to_vlan(ports, 100, assign_outcome)
    IN /\ switch_op = NoSwitchOp
       /\ switch_op' = SwitchOp("assign_ports_to_vlan", <<>>, <<>>, NoUsername, 0, 0,
                                NetOutcome(r.result, r.log, ports, 100))
       /\ UNCHANGED NetRest

\* the call has returned: the manager keeps nothing of it
SwitchReturn ==
  /\ switch_op # NoSwitchOp
  /\ switch_op' = NoSwitchOp
  /\ UNCHANGED NetRest

NetInit == HandlerAtRest /\ ServicesIdle

NetNext ==
  \/ ConfigureBatchNetwork
  \/ GenerateVlanId
  \/ VlanIdForOffset
  \/ AssignPortsToVlan
  \/ SwitchReturn

NetSpec == NetInit /\ [][NetNext]_vars

(***************************************************************************)
(* The notification service (services/notification.py): the HTTP requests *)
(* its two senders make and what they return.                             *)
(***************************************************************************)
\* config.NOTIFICATION_ENDPOINT / config.WEBHOOK_LOG_ENDPOINT: not set,
\* empty, set
Endpoints == {None, "", "http://portal/hooks"}

\* the signatures _generate_signature gives: None without a secret or when
\* the generation raised
Signatures == {None, "sig"}

\* building and serialising the payload: done, or json.dumps raised
PayloadOutcomes == {"ok", "TypeError"}

\* status codes of the response to the POST
HttpStatuses == {200, 204, 302, 399, 400, 404, 500, 599}

\* what requests.post comes to: a response, requests.exceptions.Timeout,
\* another requests.exceptions.RequestException, another exception
PostOutcomes ==
  {[kind |-> "response", status |-> s] : s \in HttpStatuses}
    \cup {[kind |-> k, status |-> 0] :
            k \in {"Timeout", "ConnectionError", "Exception"}}

\* a raise_for_status that accepts every status
raise_for_status_never(status) == None

\* response.raise_for_status(): HTTPError (a RequestException) for a 4xx
\* or 5xx status
raise_for_status(status) ==
  IF status >= 400 /\ status < 600 THEN "HTTPError" ELSE None

\* the POST a sender makes
HttpRequest(url, body, success, signature) ==
  [url |-> url, body |-> body, success |-> success, signature |-> signature]

\* what a sender comes to: its result, the exception that leaves it (None:
\* it returns) and the requests it made
Sent(result, requests) ==
  [result |-> result, raised |-> None, requests |-> requests]

\* the try block both senders share: payload, signature, requests.post,
\* raise_for_status, and the three except clauses, each returning False
post_payload(url, body, success, signature, payload_outcome, post_outcome) ==
  IF payload_outcome # "ok" THEN Sent("False", <<>>)
  ELSE IF post_outcome.kind # "response"
       THEN Sent("False", <<HttpRequest(url, body, success, signature)>>)
       ELSE IF raise_for_status(post_outcome.status) # None
            THEN Sent("False", <<HttpRequest(url, body, success, signature)>>)
            ELSE Sent("True", <<HttpRequest(url, body, success, signature)>>)

\* NotificationService.send_provisioning_notification
send_provisioning_notification(endpoint, success, signature, payload_outcome, post_outcome) ==
  IF ~Truthy(endpoint) THEN Sent("True", <<>>)
  ELSE post_payload(endpoint, "notification", success, signature,
                    payload_outcome, post_outcome)

\* NotificationService.send_webhook_log
send_webhook_log(log_endpoint, success, signature, payload_outcome, post_outcome) ==
  IF ~Truthy(log_endpoint) THEN Sent("True", <<>>)
  ELSE post_payload(log_endpoint, "webhook_log", success, signature,
                    payload_outcome, post_outcome)

\* the notification service's record of a call
NotifyOp(op, endpoint, success, payload_outcome, post_outcome, r) ==
  [op |-> op, endpoint |-> endpoint, success |-> success,
   payload_outcome |-> payload_outcome, post_outcome |-> post_outcome,
   requests |-> r.requests, result |-> r.result, raised |-> r.raised]

\* the other services are not part of these runs
NotifRest == <<handler, kube, net, loop>>

\* a caller reports the outcome of a provisioning
SendProvisioningNotification ==
  \E endpoint \in Endpoints, success \in BOOLEAN, signature \in Signatures,
     payload_outcome \in PayloadOutcomes, post_outcome \in PostOutcomes :
    /\ notify_op = NoNotifyOp
    /\ notify_op' = NotifyOp("send_provisioning_notification", endpoint,
                             success, payload_outcome, post_outcome,
                             send_provisioning_notification(endpoint, success,
                               signature, payload_outcome, post_outcome))
    /\ UNCHANGED NotifRest

\* a caller writes an audit-log entry
SendWebhookLog ==
  \E log_endpoint \in Endpoints, success \in BOOLEAN, signature \in Signatures,
     payload_outcome \in PayloadOutcomes, post_outcome \in PostOutcomes :
    /\ notify_op = NoNotifyOp
    /\ notify_op' = NotifyOp("send_webhook_log", log_endpoint, success,
                             payload_outcome, post_outcome,
                             send_webhook_log(log_endpoint, success, signature,
                                              payload_outcome, post_outcome))
    /\ UNCHANGED NotifRest

\* the call has returned: the service keeps nothing of it
NotifyReturn ==
  /\ notify_op # NoNotifyOp
  /\ notify_op' = NoNotifyOp
  /\ UNCHANGED NotifRest

NotifInit == HandlerAtRest /\ ServicesIdle

NotifNext ==
  \/ SendProvisioningNotification
  \/ SendWebhookLog
  \/ NotifyReturn

NotifSpec == NotifInit /\ [][NotifNext]_vars

(***************************************************************************)
(* The server process (main.py, api.py): requests on one event loop.  A   *)
(* handler gives the loop up only where it awaits.                        *)
(***************************************************************************)
\* the calls of a handler's run to collaborators (the entry of the
\* post-batch hook is not one)
CollaboratorCalls(cs) == SelectSeq(cs, LAMBDA c : c.svc # "hook")

\* what handle_webhook does after the body was read, for a batch of one
\* event on r1: its collaborator calls and the switch manager the process
\* holds afterwards
request_run(task, manager) ==
  LET event == MkEvent("e1", "r1")
      p == handle_provision_event("r1", "w1", provision_user_id("u1"), "e1",
                                  task.api_outcome, TRUE, TRUE)
      post == post_batch_provision_actions(
                <<event>>, "u1", task.has_active,
                IF task.has_active THEN <<MkEvent("e9", "r9")>> ELSE <<>>,
                manager, task.config_readable, task.switch_ok)
      d == handle_deprovision_event("r1", "e1", "w1", "u1", task.api_outcome,
                                    TRUE)
  IN IF task.event_type = EVENT_START
     THEN IF p.escaped # None
          THEN [calls |-> SubSeq(p.calls, 1, 1), manager |-> manager]
          ELSE IF p.result
               THEN [calls |-> CollaboratorCalls(p.calls \o post.calls),
                     manager |-> post.manager]
               ELSE [calls |-> CollaboratorCalls(p.calls), manager |-> manager]
     ELSE IF d.escaped # None
          THEN [calls |-> SubSeq(d.calls, 1, 1), manager |-> manager]
          ELSE [calls |-> CollaboratorCalls(d.calls), manager |-> manager]

\* a handler that gives the loop up before each collaborator call
handler_segments_per_call(cs) == [i \in 1..Len(cs) |-> <<cs[i]>>]

\* the stretches of its calls a handler issues without giving the loop up:
\* handle_webhook awaits nothing after the body was read, its collaborators
\* are called synchronously
handler_segments(cs) == IF cs = <<>> THEN <<>> ELSE <<cs>>

\* the outcomes a run does not come to are not part of its record
TaskRun(task, api_outcome, config_readable, switch_ok) ==
  LET reaches_network ==
        /\ task.event_type = EVENT_START
        /\ api_outcome = "patched"
        /\ task.has_active
  IN [task EXCEPT !.api_outcome = api_outcome,
                  !.config_readable = reaches_network /\ config_readable,
                  !.switch_ok = reaches_network /\ switch_ok]

\* the request of these runs is not the one of handle_webhook's own run
LoopRest ==
  <<config, req, x_webhook_signature, pc, locals, calls, response, kube, net,
    notif>>

\* a request arrives: its handler is entered and waits for the body
\* (await request.body())
Arrive ==
  \E t \in RequestIds, event_type \in {EVENT_START, EVENT_END},
     has_active \in BOOLEAN :
    /\ tasks[t].pc = "new"
    /\ event_type = EVENT_END => ~has_active
    /\ tasks' = [tasks EXCEPT ![t] = [NoTask EXCEPT !.pc = "body",
                                                    !.event_type = event_type,
                                                    !.has_active = has_active]]
    /\ UNCHANGED <<loop_calls, managers_built, switch_manager, LoopRest>>

\* the loop resumes a handler: it runs until it gives the loop up again or
\* returns, issuing its next stretch of collaborator calls
RunHandler ==
  \E t \in RequestIds, api_outcome \in ApiOutcomes,
     config_readable \in BOOLEAN, switch_ok \in BOOLEAN :
    LET task == IF tasks[t].issued = 0
                THEN TaskRun(tasks[t], api_outcome, config_readable, switch_ok)
                ELSE tasks[t]
        r == request_run(task, switch_manager)
        segments == handler_segments(SubSeq(r.calls, task.issued + 1,
                                            Len(r.calls)))
        segment == IF segments = <<>> THEN <<>> ELSE segments[1]
        finished == task.issued + Len(segment) >= Len(r.calls)
        built == finished /\ switch_manager = None /\ r.manager # None
    IN /\ tasks[t].pc = "body"
       /\ tasks' = [tasks EXCEPT ![t] =
                      [task EXCEPT !.issued = @ + Len(segment),
                                   !.pc = IF finished THEN "done" ELSE "body"]]
       /\ loop_calls' = loop_calls
                          \o [i \in 1..Len(segment) |->
                                [request |-> t, call |-> segment[i]]]
       /\ switch_manager' = IF finished THEN r.manager ELSE switch_manager
       /\ managers_built' = IF built THEN managers_built + 1
                            ELSE managers_built
       /\ UNCHANGED LoopRest

LoopInit == HandlerAtRest /\ ServicesIdle

LoopNext ==
  \/ Arrive
  \/ RunHandler

LoopSpec == LoopInit /\ [][LoopNext]_vars

(***************************************************************************)
(* Properties.                                                             *)
(***************************************************************************)
\* the host-management calls of the request, in the order issued
HostCalls == SelectSeq(calls, LAMBDA c : c.svc = "host")

\* the request went through the signature gate
GatePassed ==
  /\ pc \notin {"idle", "validate", "verify"}
  /\ response.kind \notin {"invalid_signature", "request_validation_error"}

\* a batch with at least one event, of the given type, past the gate
BatchOf(event_type) ==
  /\ req.shape = "batch"
  /\ req.event_type = event_type
  /\ req.events # <<>>
  /\ GatePassed

LoopFinished == pc \in {"post_batch", "aggregate", "done"}

\* the i-th host call is the attempt for the i-th event of the batch
AttemptsFollowEvents(op) ==
  /\ Len(HostCalls) <= Len(req.events)
  /\ \A i \in 1..Len(HostCalls) :
       /\ HostCalls[i].op = op
       /\ HostCalls[i].name = req.events[i].resource_name
       /\ HostCalls[i].event_id = req.events[i].event_id

\* the indices of the failed host calls, in increasing order
FailedIndices ==
  SelectSeq([i \in 1..Len(HostCalls) |-> i], LAMBDA i : ~HostCalls[i].success)

\* the failure entries the failed attempts call for, in input order
ExpectedFailures(action) ==
  [k \in 1..Len(FailedIndices) |->
     [event_id |-> req.events[FailedIndices[k]].event_id,
      resource_name |-> req.events[FailedIndices[k]].resource_name,
      action |-> action]]

\* the reservation of a deletion notice is active at the notice's timestamp
NoticeActive == req.start <= req.timestamp /\ req.timestamp < req.end

DeletedNotice ==
  /\ req.shape = "notice"
  /\ req.event_type = EVENT_DELETED
  /\ GatePassed

C2_EndBatchAttemptsEveryEvent ==
  BatchOf(EVENT_END) =>
    /\ AttemptsFollowEvents("deprovision")
    /\ pc = "deprovision_loop" => Len(HostCalls) < Len(req.events)
    /\ LoopFinished => Len(HostCalls) = Len(req.events)

\* C2 witness: the second deprovision was attempted after the first failed
C2_Witness ==
  /\ BatchOf(EVENT_END)
  /\ pc = "done"
  /\ Len(HostCalls) = 2
  /\ ~HostCalls[1].success
  /\ HostCalls[2].success

C4_BatchPartition ==
  \A t \in {EVENT_START, EVENT_END} :
    BatchOf(t) =>
      /\ processed_events_count + Len(failed_event_details) = Len(HostCalls)
      /\ pc = "done" =>
           /\ processed_events_count = Len(req.events) - Len(FailedIndices)
           /\ Len(response.failures) = Len(FailedIndices)
           /\ \A i, j \in 1..Len(response.failures) :
                i # j => response.failures[i].event_id # response.failures[j].event_id

\* the counts of C4 alone
BatchPartitionCounts ==
  \A t \in {EVENT_START, EVENT_END} :
    BatchOf(t) =>
      /\ processed_events_count + Len(failed_event_details) = Len(HostCalls)
      /\ pc = "done" =>
           /\ processed_events_count = Len(req.events) - Len(FailedIndices)
           /\ Len(response.failures) = Len(FailedIndices)

\* C5: an EVENT_DELETED notice gets exactly one deprovision call when
\* start <= timestamp < end and none otherwise.
C5_DeletedDeprovisionsIffActive ==
  (DeletedNotice /\ pc = "done") =>
    IF NoticeActive
    THEN /\ Len(HostCalls) = 1
         /\ HostCalls[1].op = "deprovision"
         /\ HostCalls[1].name = req.resource_name
    ELSE HostCalls = <<>>

\* C6: an EVENT_DELETED notice whose reservation is not active at the
\* notice's timestamp is answered 200 "not active" and no collaborator is
\* called.
C6_InactiveDeletionIsNoOp ==
  (DeletedNotice /\ pc = "done" /\ ~NoticeActive) =>
    /\ response.status = 200
    /\ response.kind = "deleted_not_active"
    /\ calls = <<>>

\* C6 witness: a notice stamped exactly at the end of its reservation
C6_Witness ==
  /\ DeletedNotice
  /\ pc = "done"
  /\ req.start < req.end
  /\ req.timestamp = req.end
  /\ response.kind = "deleted_not_active"

\* C7: for an active EVENT_DELETED notice the one deprovision call decides the
\* response: 200 if it succeeded, 500 if it failed.
C7_ActiveDeletionFollowsDeprovision ==
  (DeletedNotice /\ pc = "done" /\ NoticeActive) =>
    /\ Len(HostCalls) = 1
    /\ IF HostCalls[1].success
       THEN response.status = 200
       ELSE response.status = 500

\* C8: a batch with events whose event_type is neither EVENT_START nor
\* EVENT_END is rejected with 400 and no collaborator is called.
C8_UnknownBatchTypeRejected ==
  (/\ req.shape = "batch"
   /\ req.events # <<>>
   /\ req.event_type \notin {EVENT_START, EVENT_END}
   /\ GatePassed
   /\ pc = "done") =>
    /\ response.status = 400
    /\ calls = <<>>

\* C9: a batch without events past the gate is answered 200 with 0 processed
\* events, whatever its event_type, without entering a loop and without a
\* collaborator call.
C9_EmptyBatchIsNoOp ==
  (req.shape = "batch" /\ req.events = <<>> /\ GatePassed) =>
    /\ pc \in {"dispatch", "done"}
    /\ calls = <<>>
    /\ pc = "done" =>
         /\ response.status = 200
         /\ response.kind = "batch_success"
         /\ response.count = 0

\* C9 witness: an empty batch of an unknown event type was answered
C9_Witness ==
  /\ req.shape = "batch"
  /\ req.events = <<>>
  /\ req.event_type = EVENT_OTHER
  /\ pc = "done"
  /\ response.status = 200

\* C10: with a secret configured, a request whose signature header is missing
\* or is not the digest of its body leaves the gate with 403 and without any
\* collaborator call, and no call follows the rejection.
C10_BadSignatureRejected ==
  [][/\ (/\ pc = "verify"
         /\ Truthy(WEBHOOK_SECRET)
         /\ \/ x_webhook_signature = None
            \/ x_webhook_signature # B64HmacSha256(WEBHOOK_SECRET, req.raw))
        => /\ pc' = "done"
           /\ response'.status = 403
           /\ calls' = <<>>
     /\ (pc = "done" /\ response.kind = "invalid_signature") => calls' = <<>>
    ]_vars

\* C10 witness: a START batch without the header was rejected
C10_Witness ==
  /\ pc = "done"
  /\ Truthy(WEBHOOK_SECRET)
  /\ x_webhook_signature = None
  /\ req.event_type = EVENT_START
  /\ req.events # <<>>
  /\ response.status = 403
  /\ calls = <<>>

\* C11: when WEBHOOK_SECRET is unset or empty the gate lets every request
\* through, whatever the X-Webhook-Signature header is (absent, empty or any
\* value), and produces no response of its own.
C11_NoSecretAcceptsAll ==
  [][(pc = "verify" /\ ~Truthy(WEBHOOK_SECRET))
       => /\ pc' = "dispatch"
          /\ response' = NoResponse
          /\ req' = req]_vars

\* C11 witness: without a secret, a request carrying a digest made with some
\* other key went through the gate
C11_Witness ==
  /\ pc = "dispatch"
  /\ WEBHOOK_SECRET = ""
  /\ x_webhook_signature = B64HmacSha256("k2", "b1")
  /\ response = NoResponse

\* C12: with a secret configured and the header present, verify_signature
\* answers "True" exactly when the header is base64(HMAC-SHA256(secret, raw
\* body)) and "False" otherwise, also when the verification hits an internal
\* error (no exception leaves it); the gate's step is decided by the triple
\* (secret, raw body, header) alone.
C12_SignatureIsDigestEquality ==
  [][(pc = "verify" /\ Truthy(WEBHOOK_SECRET) /\ Truthy(x_webhook_signature))
       => LET r == verify_signature(WEBHOOK_SECRET, req.raw, x_webhook_signature)
              matches == /\ WEBHOOK_SECRET \notin UnencodableStrings
                         /\ x_webhook_signature =
                              B64HmacSha256(WEBHOOK_SECRET, req.raw)
          IN /\ r \in {"True", "False"}
             /\ (r = "True") <=> matches
             /\ (pc' = "dispatch") <=> matches
             /\ (pc' = "done" /\ response'.status = 403) <=> ~matches]_vars

\* C12 witness: comparing a header that is not ASCII raised inside the
\* verification and the request was refused with 403
C12_Witness ==
  /\ pc = "done"
  /\ WEBHOOK_SECRET = "k1"
  /\ x_webhook_signature \in NonAsciiStrings
  /\ response.status = 403

\* C13: with a secret configured, a request whose signature header is missing
\* or is not the digest of its body is answered 403 whatever its body is, a
\* body that is not JSON or fits neither payload model included: no other
\* answer is given to it first.
C13_AuthenticationBeforeValidation ==
  [][(/\ pc \in {"validate", "verify"}
      /\ pc' = "done"
      /\ Truthy(WEBHOOK_SECRET)
      /\ \/ x_webhook_signature = None
         \/ x_webhook_signature # B64HmacSha256(WEBHOOK_SECRET, req.raw))
       => response'.status = 403]_vars

\* the whole batch was attempted and no attempt failed
AllAttemptsSucceeded ==
  /\ Len(HostCalls) = Len(req.events)
  /\ FailedIndices = <<>>

NetworkCalls == SelectSeq(calls, LAMBDA c : c.svc = "network")
HookCalls == SelectSeq(calls, LAMBDA c : c.svc = "hook")

NotifyCalls == SelectSeq(calls, LAMBDA c : c.svc = "notify")
LogCalls == SelectSeq(calls, LAMBDA c : c.svc = "log")

SuccessfulNames ==
  LET ok == SelectSeq([i \in 1..Len(HostCalls) |-> i],
                      LAMBDA i : HostCalls[i].success)
  IN [k \in 1..Len(ok) |-> HostCalls[ok[k]].name]

\* C17: every call of configure_batch_network gets the resource names of the
\* successfully provisioned events followed by the resource names of the
\* payload's active_resources, and nothing else: no name of a failed event
\* and no other value.
C17_NetworkReceivesNewAndActiveNames ==
  \A i \in 1..Len(NetworkCalls) :
    NetworkCalls[i].names =
      SuccessfulNames \o ResourceNamesOf(req.active.active_resources)

C19_OneNotificationPerFailure ==
  (Truthy(req.webhook_id) /\ GatePassed) =>
    /\ Len(NotifyCalls) = Len(FailedIndices)
    /\ \A k \in 1..Len(NotifyCalls) :
         /\ NotifyCalls[k].name = HostCalls[FailedIndices[k]].name
         /\ NotifyCalls[k].event_id = HostCalls[FailedIndices[k]].event_id

\* the part of C19 about provisions
ProvisionFailuresNotified ==
  (Truthy(req.webhook_id) /\ BatchOf(EVENT_START)) =>
    /\ Len(NotifyCalls) = Len(FailedIndices)
    /\ \A k \in 1..Len(NotifyCalls) :
         /\ NotifyCalls[k].name = HostCalls[FailedIndices[k]].name
         /\ NotifyCalls[k].event_id = HostCalls[FailedIndices[k]].event_id

\* the number of calls of a service among the first p calls
CallsUpTo(svc, p) == Cardinality({q \in 1..p : calls[q].svc = svc})

C22_StartSuccessMessage ==
  (/\ BatchOf(EVENT_START)
   /\ pc = "done"
   /\ AllAttemptsSucceeded
   /\ Truthy(req.user_id)) =>
    /\ response.status = 200
    /\ response.kind = "batch_success"
    /\ batch_success_message(response.action, response.count, response.user) =
         "Batch start initiated for " \o ToString(Len(req.events))
           \o " events for user " \o req.user_id \o "."

\* the message C22's batches do get
StartSuccessMessageAsBuilt ==
  (/\ BatchOf(EVENT_START)
   /\ pc = "done"
   /\ AllAttemptsSucceeded
   /\ Truthy(req.user_id)) =>
    /\ response.status = 200
    /\ response.kind = "batch_success"
    /\ batch_success_message(response.action, response.count, response.user) =
         "Batch event_start initiated for " \o ToString(Len(req.events))
           \o " events for user " \o req.user_id \o "."

\* the request was refused at the door: by validation or by the gate
Refused ==
  /\ response.kind \in {"request_validation_error", "invalid_signature"}
  /\ calls = <<>>

\* C23: a batch whose eventCount is not the number of its events is refused
\* as a validation error and no collaborator is called for it.
C23_EventCountMismatchRejected ==
  (/\ pc = "done"
   /\ req.has_events
   /\ req.has_event_count
   /\ req.event_count # Len(req.events)) => Refused

\* the data object of the body has start >= end
InvertedNotice == req.has_data /\ req.start >= req.end

\* some event of the body has eventStart >= eventEnd
InvertedEvent ==
  /\ req.has_events
  /\ \E i \in 1..Len(req.events) :
       req.events[i].event_start >= req.events[i].event_end

\* C24: a payload with an inverted or empty interval, in the data of a
\* deletion notice or in an event of a batch, is refused as a validation
\* error, and no provision or deprovision call is made for it.
C24_InvertedIntervalRejected ==
  (pc = "done" /\ (InvertedNotice \/ InvertedEvent)) => Refused

\* the part of C24 that holds: a deletion notice with start >= end is never
\* followed by a call to a collaborator
InvertedNoticeMakesNoCall ==
  (req.shape = "notice" /\ InvertedNotice) => calls = <<>>

\* the window test of the deletion notice about to be handled raises
WindowTestRaises ==
  /\ pc = "dispatch"
  /\ req.shape = "notice"
  /\ notice_needs_window(req.event_type)
  /\ window_comparison_raises(req.naive, deletion_now(req, 0), req.start,
                              req.end)

\* C25: a payload with an offset-less timestamp in any timestamp field is
\* refused as a validation error, so the window test of a deletion notice
\* only ever compares offset-aware instants and never ends in an error.
C25_NaiveTimestampRejected ==
  /\ (pc = "done" /\ req.naive # {}) => Refused
  /\ ~WindowTestRaises

\* the part of C25 that holds: the window test raises only when offset-less
\* and offset-aware instants are mixed in one notice
WindowTestRaisesOnlyOnMixedInstants ==
  WindowTestRaises => (req.naive # {} /\ req.naive # TimestampFields)

\* C26: an accepted payload that carries an events array is handled by the
\* batch branch, whatever the number of its events and its event_type; one
\* that carries a data object and no events array is handled by the notice
\* branch; and exactly one of the two branches handles it.
C26_ClassificationIsStructural ==
  [][pc = "dispatch" =>
       /\ req.has_events => HandleBatch
       /\ (req.has_data /\ ~req.has_events) => HandleNotice
       /\ HandleBatch # HandleNotice]_vars

\* the part of C26 that holds: the branch follows the model the body
\* validated as, so a body with events and eventCount is a batch whatever
\* its event_type and count, a body with data and no events is a notice,
\* and one branch at most is taken
BranchFollowsValidatedModel ==
  [][pc = "dispatch" =>
       /\ (req.has_events /\ req.has_event_count) => HandleBatch
       /\ (req.has_data /\ ~req.has_events) => HandleNotice
       /\ HandleBatch # HandleNotice]_vars

\* C27: a notice whose event_type is not EVENT_DELETED is answered 200
\* "No action needed for event type X" and no collaborator is called for it,
\* whatever its timestamps.
C27_OtherNoticeIsNoOp ==
  [][(/\ pc = "dispatch"
      /\ req.shape = "notice"
      /\ req.event_type # EVENT_DELETED) =>
        /\ pc' = "done"
        /\ response'.status = HTTP_200_OK
        /\ response'.kind = "no_action_needed"
        /\ response'.action = req.event_type
        /\ calls' = <<>>]_vars

\* an EVENT_START notice whose timestamp lies inside its window was answered
\* "no action needed"
C27_Witness ==
  /\ pc = "done"
  /\ req.shape = "notice"
  /\ req.event_type = EVENT_START
  /\ req.start <= req.timestamp
  /\ req.timestamp < req.end
  /\ response.kind = "no_action_needed"
  /\ calls = <<>>

\* the events of the batch whose host patch did not succeed
FailedAttempts == {i \in 1..Len(HostCalls) : ~HostCalls[i].success}

\* the orchestrator API raised while some host of the request was patched
SomePatchRaised ==
  \E i \in 1..Len(HostCalls) : HostCalls[i].raised # None

\* C28: an error raised by the orchestrator API while one host is patched, a
\* timeout included, only fails that resource: the request does not crash,
\* every event of the batch is still attempted, and the aggregated error
\* lists exactly the resources whose patch failed.
C28_PatchErrorIsFailureOfOneResource ==
  (pc = "done" /\ req.shape = "batch" /\ SomePatchRaised) =>
    /\ Len(HostCalls) = Len(req.events)
    /\ \A i \in 1..Len(req.events) :
         /\ HostCalls[i].name = req.events[i].resource_name
         /\ HostCalls[i].raised # None => ~HostCalls[i].success
    /\ response.status = HTTP_500_INTERNAL_SERVER_ERROR
    /\ response.kind = "batch_failure"
    /\ Len(response.failures) = Cardinality(FailedAttempts)
    /\ \A i \in FailedAttempts :
         \E j \in 1..Len(response.failures) :
           /\ response.failures[j].event_id = req.events[i].event_id
           /\ response.failures[j].resource_name = req.events[i].resource_name
    /\ \A j \in 1..Len(response.failures) :
         \E i \in FailedAttempts :
           /\ response.failures[j].event_id = req.events[i].event_id
           /\ response.failures[j].resource_name = req.events[i].resource_name

\* the API raised while the first of two hosts was patched, the second host
\* was patched all the same, and the error names the first only
C28_Witness ==
  /\ pc = "done"
  /\ req.shape = "batch"
  /\ Len(req.events) = 2
  /\ req.events[1].resource_name # req.events[2].resource_name
  /\ Len(HostCalls) = 2
  /\ HostCalls[1].raised = "Exception"
  /\ HostCalls[2].success
  /\ response.kind = "batch_failure"
  /\ Len(response.failures) = 1
  /\ response.failures[1].resource_name = req.events[1].resource_name

\* what handle_webhook holds is as at the start of the process
FreshRequestState ==
  /\ req = NoRequest
  /\ x_webhook_signature = None
  /\ idx = 0
  /\ processed_events_count = 0
  /\ failed_event_details = <<>>
  /\ successful_provision_events = <<>>
  /\ calls = <<>>
  /\ response = NoResponse

\* the hook of the request is about to call get_switch_manager
AboutToGetSwitchManager ==
  /\ pc = "post_batch"
  /\ NETWORK_CONFIG_ENABLED
  /\ req.active.has_active

HandlerStateIsPerRequest == pc = "idle" => FreshRequestState

\* C30: the mutation applied is the one of the event: the patch of an
\* EVENT_START event sets the host image, and the patch of an EVENT_END or
\* of an active EVENT_DELETED event clears spec.image and spec.userData and
\* never sets an image, whatever PROVISION_IMAGE and DEPROVISION_IMAGE are.
C30_PatchMatchesEvent ==
  \A i \in 1..Len(HostCalls) :
    /\ HostCalls[i].op = "provision" => HostCalls[i].patch = "provision"
    /\ HostCalls[i].op = "deprovision" => HostCalls[i].patch = "deprovision"

\* the part of C30 that holds: with the PROVISION_IMAGE of the model an
\* EVENT_START patch sets the image, and with no DEPROVISION_IMAGE the other
\* patches clear it
PatchMatchesEventByDefault ==
  \A i \in 1..Len(HostCalls) :
    /\ HostCalls[i].op = "provision" => HostCalls[i].patch = "provision"
    /\ (HostCalls[i].op = "deprovision" /\ ~Truthy(DEPROVISION_IMAGE)) =>
         (HostCalls[i].patch = "deprovision" /\ HostCalls[i].image = None)

\* the last call of the kubernetes service patched its host to the
\* provisioned state
HostJustProvisioned ==
  /\ last_op.op = "provision"
  /\ last_op.result = "True"

\* C31: whenever a host has been patched to the provisioned state for a
\* batch, the secret <host>-userdata its patch refers to holds exactly the
\* ssh_public_key of that batch or does not exist: never the key of an
\* earlier reservation.
C31_SecretIsOfThisBatch ==
  HostJustProvisioned =>
    \/ ~secrets[last_op.bmh_name].exists
    \/ /\ Truthy(last_op.ssh_key)
       /\ secrets[last_op.bmh_name].keys = <<last_op.ssh_key>>

\* the part of C31 that holds: a host provisioned for a batch that brings a
\* key refers to a secret that authorises that key and no other
SecretIsOfThisBatchWithKey ==
  (HostJustProvisioned /\ Truthy(last_op.ssh_key)) =>
    /\ bmh[last_op.bmh_name].userData = secret_name(last_op.bmh_name)
    /\ secrets[last_op.bmh_name] = Secret(<<last_op.ssh_key>>)

\* C32: provision with an SSH key writes the userdata secret before it
\* patches the host; when the secret could not be written the host is not
\* patched at all and provision returns failure.
C32_SecretBeforeHostPatch ==
  [][(last_op'.op = "provision" /\ Truthy(last_op'.ssh_key)) =>
       LET c == last_op'.calls
       IN /\ c # <<>>
          /\ c[1].api = "create_namespaced_secret"
          /\ \A i \in 1..Len(c) :
               c[i].api = "patch_namespaced_custom_object" =>
                 /\ i = Len(c)
                 /\ i > 1
                 /\ c[i - 1].outcome \in {"201", "200"}
          /\ c[Len(c)].api # "patch_namespaced_custom_object" =>
               /\ c[Len(c)].outcome \notin {"201", "200"}
               /\ last_op'.result = "False"
               /\ bmh' = bmh]_vars

\* the update of an existing secret failed for a host that was never
\* patched: provision returned failure and the host has no image
C32_Witness ==
  /\ last_op.op = "provision"
  /\ Truthy(last_op.ssh_key)
  /\ Len(last_op.calls) = 2
  /\ last_op.calls[2].api = "patch_namespaced_secret"
  /\ last_op.calls[2].outcome = "ApiException"
  /\ last_op.result = "False"
  /\ bmh[last_op.bmh_name].image = None

\* the API served every request of the last call of the service
AllServed(c) == \A i \in 1..Len(c) : c[i].outcome \in {"201", "200", "409"}

\* C33: create_or_update never raises and returns True exactly when the
\* create succeeded, or was rejected with 409 and the update then succeeded;
\* every other error gives False and leaves the secret as it was.  Called
\* again with the same host and key it returns True again and the secret
\* keeps the content of the first call.
C33_CreateOrUpdateIdempotent ==
  [][last_op'.op = "create_or_update" =>
       LET c == last_op'.calls
           h == last_op'.bmh_name
       IN /\ last_op'.result \in {"True", "False"}
          /\ last_op'.result = "True" <=>
               \/ (Len(c) = 1 /\ c[1].outcome = "201")
               \/ (Len(c) = 2 /\ c[1].outcome = "409" /\ c[2].outcome = "200")
          /\ last_op'.result = "True" =>
               secrets'[h] = Secret(<<last_op'.ssh_key>>)
          /\ last_op'.result = "False" => secrets' = secrets
          /\ (/\ last_op.op = "create_or_update"
              /\ last_op.result = "True"
              /\ last_op.bmh_name = h
              /\ last_op.ssh_key = last_op'.ssh_key
              /\ AllServed(c)) =>
                (last_op'.result = "True" /\ secrets' = secrets)
          /\ UNCHANGED <<bmh, CLOUD_CONFIG_TEMPLATE>>]_vars

\* the secret existed: the create was answered 409, the update succeeded
\* and the secret holds the key of the call
C33_Witness ==
  /\ last_op.op = "create_or_update"
  /\ Len(last_op.calls) = 2
  /\ last_op.calls[1].outcome = "409"
  /\ last_op.calls[2].outcome = "200"
  /\ last_op.result = "True"
  /\ secrets[last_op.bmh_name] = Secret(<<last_op.ssh_key>>)

\* the last call of the service generated a cloud-config
CloudConfigGenerated ==
  /\ last_op.op \in {"provision", "create_or_update"}
  /\ Truthy(last_op.ssh_key)

LogsCarryPayloadType ==
  \A i \in 1..Len(LogCalls) : LogCalls[i].event_type = req.event_type

\* the audit-log entries _handle_deprovision_event writes when it is called
\* with the arguments handle_webhook gives it for the notice in req
DeletionLogEntries ==
  UNION {
    LET r == handle_deprovision_event(req.resource_name, req.data_id,
                                      req.webhook_id, req.user_id,
                                      api_outcome, lOk)
    IN {r.calls[i] : i \in {j \in 1..Len(r.calls) : r.calls[j].svc = "log"}}
    : api_outcome \in ApiOutcomes, lOk \in BOOLEAN}

\* C35: the audit-log entry of a per-resource outcome carries the event type
\* of the webhook that triggered it: EVENT_START for a START batch,
\* EVENT_END for an END batch, EVENT_DELETED for the deprovision of a
\* deletion notice.
C35_LogCarriesTriggerType ==
  /\ LogsCarryPayloadType
  /\ (pc = "dispatch" /\ DeletedNotice /\ NoticeActive) =>
       \A c \in DeletionLogEntries : c.event_type = EVENT_DELETED

\* the calls of the current configure_batch_network on the switch
SwitchLog == switch_op.log
SwitchCallsOf(op) == {i \in 1..Len(SwitchLog) : SwitchLog[i].op = op}
ConfiguringBatchNetwork == switch_op.op = "configure_batch_network"

\* some resource name of the call has a port in the mapping
SomeNameHasPort ==
  \E i \in 1..Len(switch_op.resource_names) :
    switch_op.resource_names[i] \in DOMAIN switch_op.server_port_mapping

\* the connection was opened: ConnectHandler returned a device
SwitchConnectionOpened ==
  \E i \in SwitchCallsOf("connect") : SwitchLog[i].outcome = "ok"

\* C36: configure_batch_network connects to the switch only when some
\* resource name has a port mapping, and otherwise returns True without
\* a call on the switch; a connection that was opened is disconnected
\* exactly once, as the last call before the return, on every path; the
\* VLAN is created before any port is assigned, and no port is assigned
\* when the creation failed.
C36_SwitchSessionIsBracketed ==
  ConfiguringBatchNetwork =>
    /\ SwitchCallsOf("connect") # {} => SomeNameHasPort
    /\ ~SomeNameHasPort => switch_op.result = "True" /\ SwitchLog = <<>>
    /\ SwitchCallsOf("connect") \subseteq {1}
    /\ IF SwitchConnectionOpened
       THEN SwitchCallsOf("disconnect") = {Len(SwitchLog)}
       ELSE SwitchCallsOf("disconnect") = {}
    /\ \A i \in SwitchCallsOf("assign_ports") :
         \E j \in SwitchCallsOf("create_vlan") :
           j < i /\ SwitchLog[j].outcome = "ok"
    /\ \A j \in SwitchCallsOf("create_vlan") : \E i \in SwitchCallsOf("connect") : i < j

\* a call whose VLAN creation failed on an open connection
C36_Witness ==
  /\ ConfiguringBatchNetwork
  /\ SwitchConnectionOpened
  /\ \E j \in SwitchCallsOf("create_vlan") : SwitchLog[j].outcome = "error"
  /\ SwitchCallsOf("disconnect") # {}

\* _generate_vlan_id, or its last lines, has returned an id
VlanIdReturned ==
  /\ switch_op.op \in {"generate_vlan_id", "vlan_id_for_offset"}
  /\ switch_op.result = "int"
VlanIdGenerated ==
  switch_op.op = "generate_vlan_id" /\ switch_op.result = "int"

\* the lists of str among the lists of names
StrNameLists ==
  {names \in ResourceNameLists :
     \A i \in 1..Len(names) : names[i] # GeneratorObject}
NameSet(names) == {names[i] : i \in 1..Len(names)}

\* the id _generate_vlan_id gives the user and base of the current call
\* for other names
VlanIdOf(names) ==
  generate_vlan_id(names, switch_op.user_info, switch_op.base_vlan_id).vlan_id

\* for a base id of at least 1 and any hash offset in 0..899 the id lies in
\* 1..4094
VlanIdInRange ==
  (VlanIdReturned /\ switch_op.base_vlan_id >= 1)
    => switch_op.vlan_id \in 1..MAX_VLAN_ID

\* the id is the same for the same names given in another order
VlanIdIgnoresOrder ==
  VlanIdGenerated =>
    \A names \in StrNameLists :
      sorted_names(names) = sorted_names(switch_op.resource_names)
        => VlanIdOf(names) = switch_op.vlan_id

\* C37: _generate_vlan_id returns an integer in 1..4094 for every base id
\* of at least 1 and every hash offset in 0..899, and its result is the
\* same for the same user and the same set of resource names, in whatever
\* order and form the names are given.
C37_VlanIdOfNameSet ==
  /\ VlanIdInRange
  /\ VlanIdGenerated =>
       \A names \in StrNameLists :
         NameSet(names) = NameSet(switch_op.resource_names)
           => VlanIdOf(names) = switch_op.vlan_id

\* _assign_ports_to_vlan was called on a list of distinct ports
AssignedDistinctPorts ==
  /\ switch_op.op = "assign_ports_to_vlan"
  /\ \A i, j \in 1..Len(switch_op.ports) :
       switch_op.ports[i] = switch_op.ports[j] => i = j

\* the interface selection it sent, and the ports a range stands for
SelectedInterface == switch_op.log[1].interface
PortsOfRange(r) == r.start..r.end

\* C40: for a non-empty list of distinct ports in any order, the interface
\* selection of _assign_ports_to_vlan has pairwise disjoint ranges that
\* cover exactly the given ports, every maximal run of consecutive ports
\* is one 'start-end' range (no two ranges touch), and a lone port is
\* listed without a range.
C40_RangesPartitionPorts ==
  AssignedDistinctPorts =>
    LET ranges == SelectedInterface.ranges
        idxs == 1..Len(ranges)
    IN /\ ranges # <<>>
       /\ \A i \in idxs : ranges[i].start <= ranges[i].end
       /\ UNION {PortsOfRange(ranges[i]) : i \in idxs}
            = {switch_op.ports[k] : k \in 1..Len(switch_op.ports)}
       /\ \A i, j \in idxs :
            i # j => PortsOfRange(ranges[i]) \cap PortsOfRange(ranges[j]) = {}
       /\ \A i, j \in idxs : ranges[i].end + 1 # ranges[j].start
       /\ \A i \in idxs : ranges[i].dashed <=> ranges[i].start < ranges[i].end
       /\ SelectedInterface.range <=> Len(switch_op.ports) > 1

\* ports given out of order, of which two follow each other
C40_Witness ==
  /\ AssignedDistinctPorts
  /\ switch_op.ports = <<3, 1, 4>>
  /\ SelectedInterface.ranges = <<PortRange(1, 1), PortRange(3, 4)>>

\* a sender of the notification service was called
SenderCalled ==
  notify_op.op \in {"send_provisioning_notification", "send_webhook_log"}

\* the POST was answered with a status below 400
PostAccepted ==
  /\ notify_op.payload_outcome = "ok"
  /\ notify_op.post_outcome.kind = "response"
  /\ notify_op.post_outcome.status < 400

\* C39: send_provisioning_notification and send_webhook_log never raise;
\* without a configured endpoint they return True and make no HTTP
\* request; with one they make at most one POST and return True when it
\* was answered with a non-error status, and False on a timeout, another
\* request error, an error status or any other exception.
C39_SendersNeverRaise ==
  SenderCalled =>
    /\ notify_op.raised = None
    /\ notify_op.result \in {"True", "False"}
    /\ Len(notify_op.requests) <= 1
    /\ ~Truthy(notify_op.endpoint)
         => notify_op.result = "True" /\ notify_op.requests = <<>>
    /\ Truthy(notify_op.endpoint)
         => (notify_op.result = "True" <=> PostAccepted)

\* a POST answered with an error status: the sender returned False
C39_Witness ==
  /\ SenderCalled
  /\ Truthy(notify_op.endpoint)
  /\ notify_op.post_outcome = [kind |-> "response", status |-> 500]
  /\ Len(notify_op.requests) = 1
  /\ notify_op.result = "False"

\* the positions of a request's collaborator calls among the process's
LoopCallsOf(t) == {i \in 1..Len(loop_calls) : loop_calls[i].request = t}

====
